---- MODULE Spec2Model ----
(***************************************************************************)
(* Sunstay: the Wind & Apparent Temperature Intelligence Engine            *)
(* (windIntelligence.js), the timeline engine (timelineIntelligence.js),   *)
(* the booking store (bookingSlice), the booking summary (BookingSummary)  *)
(* and the weather cache (useWeather).                                     *)
(*                                                                         *)
(* The engines are sets of pure functions.  For them the state of the      *)
(* model is the engine call that was made last: the function called (fn),  *)
(* its arguments (args) and the value it returned (ret); the device's wall *)
(* clock (clock), which generateHourlyForecast reads; the venue objects    *)
(* that callers pass by reference (heap); and, where two callers share the *)
(* engine, the last call of each (calls).  For the store, the summary and  *)
(* the cache, heap holds the object (reducer state, refs, props, storage)  *)
(* and calls the asynchronous calls in flight; each of their sections says *)
(* what the two hold.                                                      *)
(*                                                                         *)
(* Numbers are fixed-point decimals:                                       *)
(*   temperatures and wind speeds   integer hundredths (2400 = 24.00)      *)
(*   exposure, shelterFactor        integer hundredths (95 = 0.95)         *)
(*   humidity                       integer percent                        *)
(* A value that may be missing (null / undefined) is Null = <<>> or        *)
(* Some(v) = <<v>>.                                                        *)
(***************************************************************************)
EXTENDS Integers, Sequences, FiniteSets, TLC

VARIABLES fn, args, ret, clock, heap, calls

vars == <<fn, args, ret, clock, heap, calls>>

Null == <<>>
Some(v) == <<v>>
Val(o) == o[1]

\* ── Strings ───────────────────────────────────────────────────────────────

UpperChars == <<"A","B","C","D","E","F","G","H","I","J","K","L","M",
                "N","O","P","Q","R","S","T","U","V","W","X","Y","Z">>
LowerChars == <<"a","b","c","d","e","f","g","h","i","j","k","l","m",
                "n","o","p","q","r","s","t","u","v","w","x","y","z">>

lowerChar(c) ==
    IF \E i \in 1..Len(UpperChars) : UpperChars[i] = c
    THEN LowerChars[CHOOSE i \in 1..Len(UpperChars) : UpperChars[i] = c]
    ELSE c

\* String.prototype.toLowerCase
RECURSIVE toLowerCase(_)
toLowerCase(s) ==
    IF Len(s) = 0 THEN ""
    ELSE lowerChar(SubSeq(s, 1, 1)) \o toLowerCase(SubSeq(s, 2, Len(s)))

\* String.prototype.includes: kw occurs in s as a substring
stringIncludes(s, kw) ==
    \E i \in 1..(Len(s) - Len(kw) + 1) : SubSeq(s, i, i + Len(kw) - 1) = kw

\* Array.prototype.includes: x is an element of the array
arrayIncludes(arr, x) == \E i \in 1..Len(arr) : arr[i] = x

\* ── Wind exposure profiles ────────────────────────────────────────────────

\* The profile table with the cafe shelter factor no longer 1 - exposure
WIND_EXPOSURE_PROFILES_Decoupled ==
    [rooftop     |-> [exposure |-> 95, shelterFactor |-> 5,  label |-> "Rooftop - Fully Exposed"],
     floating    |-> [exposure |-> 90, shelterFactor |-> 10, label |-> "Waterfront - Very Exposed"],
     waterfront  |-> [exposure |-> 80, shelterFactor |-> 20, label |-> "Waterfront - High Exposure"],
     open_park   |-> [exposure |-> 75, shelterFactor |-> 25, label |-> "Open Park/Stadium - High Exposure"],
     beer_garden |-> [exposure |-> 55, shelterFactor |-> 45, label |-> "Beer Garden - Moderate Exposure"],
     courtyard   |-> [exposure |-> 35, shelterFactor |-> 65, label |-> "Courtyard - Partially Sheltered"],
     streetside  |-> [exposure |-> 50, shelterFactor |-> 50, label |-> "Streetside - Moderate Exposure"],
     indoor      |-> [exposure |-> 5,  shelterFactor |-> 95, label |-> "Indoor - Well Sheltered"],
     cafe        |-> [exposure |-> 30, shelterFactor |-> 75, label |-> "Cafe - Mostly Sheltered"],
     hotel       |-> [exposure |-> 25, shelterFactor |-> 75, label |-> "Hotel - Sheltered"]]

WIND_EXPOSURE_PROFILES ==
    [rooftop     |-> [exposure |-> 95, shelterFactor |-> 5,  label |-> "Rooftop - Fully Exposed"],
     floating    |-> [exposure |-> 90, shelterFactor |-> 10, label |-> "Waterfront - Very Exposed"],
     waterfront  |-> [exposure |-> 80, shelterFactor |-> 20, label |-> "Waterfront - High Exposure"],
     open_park   |-> [exposure |-> 75, shelterFactor |-> 25, label |-> "Open Park/Stadium - High Exposure"],
     beer_garden |-> [exposure |-> 55, shelterFactor |-> 45, label |-> "Beer Garden - Moderate Exposure"],
     courtyard   |-> [exposure |-> 35, shelterFactor |-> 65, label |-> "Courtyard - Partially Sheltered"],
     streetside  |-> [exposure |-> 50, shelterFactor |-> 50, label |-> "Streetside - Moderate Exposure"],
     indoor      |-> [exposure |-> 5,  shelterFactor |-> 95, label |-> "Indoor - Well Sheltered"],
     cafe        |-> [exposure |-> 30, shelterFactor |-> 70, label |-> "Cafe - Mostly Sheltered"],
     hotel       |-> [exposure |-> 25, shelterFactor |-> 75, label |-> "Hotel - Sheltered"]]

ProfileTypes == DOMAIN WIND_EXPOSURE_PROFILES

VENUE_WIND_NOTES ==
    [x \in {"dv-02", "dv-03", "dv-04", "dv-06", "dv-07", "dv-09", "dv-11", "dv-13",
            "dv-15", "dv-17", "dv-18", "dv-19", "dv-21", "dv-22", "dv-23"} |->
        CASE x = "dv-02" -> "This rooftop gets afternoon bay breezes from the south"
          [] x = "dv-03" -> "Streetside seating exposed to St Kilda sea breeze"
          [] x = "dv-04" -> "Port Melbourne brewery catches westerly harbour winds"
          [] x = "dv-06" -> "Multi-level CBD location - upper floors windier"
          [] x = "dv-07" -> "Open food truck park - exposed to northerly gusts"
          [] x = "dv-09" -> "Rooftop courtyard funnels afternoon wind between buildings"
          [] x = "dv-11" -> "CBD rooftop exposed to cross-building wind tunnels"
          [] x = "dv-13" -> "Sheltered laneway terrace - protected from westerly winds"
          [] x = "dv-15" -> "South Wharf waterfront gets consistent river breeze"
          [] x = "dv-17" -> "Little Bourke St laneway creates natural wind shelter"
          [] x = "dv-18" -> "Open stadium precinct - exposed on all sides"
          [] x = "dv-19" -> "Docklands waterfront - high wind exposure from bay"
          [] x = "dv-21" -> "Esplanade-facing - strong afternoon sea breeze from bay"
          [] x = "dv-22" -> "Floating bar on Yarra - constant river surface breeze"
          [] x = "dv-23" -> "Fitzroy garden courtyard - protected by surrounding walls"]

\* ── Exposure resolver ─────────────────────────────────────────────────────

\* (venue.vibe || '').toLowerCase()
venueVibe(venue) == IF venue.vibe = Null THEN "" ELSE toLowerCase(Val(venue.vibe))

\* venueTags without the toLowerCase of the tags
venueTagsAsWritten(venue) ==
    IF venue.tags = Null THEN <<>> ELSE Val(venue.tags)

\* (venue.tags || []).map(t => t.toLowerCase())
venueTags(venue) ==
    IF venue.tags = Null THEN <<>>
    ELSE [i \in 1..Len(Val(venue.tags)) |-> toLowerCase(Val(venue.tags)[i])]

\* (venue.venueName || '').toLowerCase()
venueNameLower(venue) ==
    IF venue.venueName = Null THEN "" ELSE toLowerCase(Val(venue.venueName))

\* The keyword tests of detectWindExposure, one per target category, in the
\* order in which the code makes them.
matchesRooftop(vibe, tags) ==
    arrayIncludes(tags, "rooftop") \/ stringIncludes(vibe, "rooftop")

matchesFloating(vibe, tags) == stringIncludes(vibe, "floating")

matchesWaterfront(vibe, tags) ==
    \/ arrayIncludes(tags, "river")
    \/ stringIncludes(vibe, "waterfront")
    \/ stringIncludes(vibe, "wharf")

matchesOpenPark(vibe, tags) ==
    \/ stringIncludes(vibe, "stadium") \/ stringIncludes(vibe, "pop-up")
    \/ stringIncludes(vibe, "marquee")
    \/ stringIncludes(vibe, "food truck") \/ stringIncludes(vibe, "park")

matchesBeerGarden(vibe, tags) ==
    \/ arrayIncludes(tags, "beer garden")
    \/ stringIncludes(vibe, "beer garden")
    \/ stringIncludes(vibe, "garden")

matchesCourtyard(vibe, tags) ==
    \/ stringIncludes(vibe, "courtyard") \/ stringIncludes(vibe, "maze")
    \/ stringIncludes(vibe, "hidden")

matchesStreetside(vibe, tags) ==
    stringIncludes(vibe, "streetside") \/ stringIncludes(vibe, "street")

matchesCafe(vibe, tags) ==
    \/ stringIncludes(vibe, "cafe") \/ stringIncludes(vibe, "bookshop")
    \/ stringIncludes(vibe, "co-work")

matchesHotel(vibe, tags) ==
    stringIncludes(vibe, "hotel") \/ stringIncludes(vibe, "boutique hotel")

matchesLounge(vibe, tags) ==
    \/ stringIncludes(vibe, "lounge") \/ stringIncludes(vibe, "cocktail")
    \/ arrayIncludes(tags, "cozy")

matchesPub(vibe, tags) ==
    \/ stringIncludes(vibe, "pub") \/ stringIncludes(vibe, "tavern")
    \/ stringIncludes(vibe, "warehouse")

\* detectWindExposure with the beer-garden test made before the rooftop test
detectWindExposureGardenFirst(venue) ==
    LET vibe == venueVibe(venue)
        tags == venueTags(venue)
    IN  IF matchesBeerGarden(vibe, tags) THEN "beer_garden"
        ELSE IF matchesRooftop(vibe, tags) THEN "rooftop"
        ELSE IF matchesFloating(vibe, tags) THEN "floating"
        ELSE IF matchesWaterfront(vibe, tags) THEN "waterfront"
        ELSE IF matchesOpenPark(vibe, tags) THEN "open_park"
        ELSE IF matchesCourtyard(vibe, tags) THEN "courtyard"
        ELSE IF matchesStreetside(vibe, tags) THEN "streetside"
        ELSE IF matchesCafe(vibe, tags) THEN "cafe"
        ELSE IF matchesHotel(vibe, tags) THEN "hotel"
        ELSE IF matchesLounge(vibe, tags) THEN "courtyard"
        ELSE IF matchesPub(vibe, tags) THEN "beer_garden"
        ELSE "beer_garden"

detectWindExposure(venue) ==
    LET vibe == venueVibe(venue)
        tags == venueTags(venue)
        name == venueNameLower(venue)   \* computed by the code, never read
    IN  IF matchesRooftop(vibe, tags) THEN "rooftop"
        ELSE IF matchesFloating(vibe, tags) THEN "floating"
        ELSE IF matchesWaterfront(vibe, tags) THEN "waterfront"
        ELSE IF matchesOpenPark(vibe, tags) THEN "open_park"
        ELSE IF matchesBeerGarden(vibe, tags) THEN "beer_garden"
        ELSE IF matchesCourtyard(vibe, tags) THEN "courtyard"
        ELSE IF matchesStreetside(vibe, tags) THEN "streetside"
        ELSE IF matchesCafe(vibe, tags) THEN "cafe"
        ELSE IF matchesHotel(vibe, tags) THEN "hotel"
        ELSE IF matchesLounge(vibe, tags) THEN "courtyard"
        ELSE IF matchesPub(vibe, tags) THEN "beer_garden"
        ELSE "beer_garden"

getWindProfile(venue) ==
    LET type == detectWindExposure(venue)
        profile == IF type \in ProfileTypes THEN WIND_EXPOSURE_PROFILES[type]
                   ELSE WIND_EXPOSURE_PROFILES.beer_garden
        note == IF venue.id \in DOMAIN VENUE_WIND_NOTES
                THEN Some(VENUE_WIND_NOTES[venue.id]) ELSE Null
    IN  [type |-> type, exposure |-> profile.exposure,
         shelterFactor |-> profile.shelterFactor, label |-> profile.label,
         venueNote |-> note]

\* ── Fixed-point arithmetic ────────────────────────────────────────────────

\* floor(a * b / c) for a >= 0, b >= 0, c > 0, without forming a * b
MulDiv(a, b, c) == (a \div c) * b + ((a % c) * b) \div c

\* Math.round: the nearest integer, ties towards +Infinity; x = num / den
MathRound(num, den) == (2 * num + den) \div (2 * den)

\* Sum of the series t + s*t*x/n + s^2*t*x^2/(n(n+1)) + ... with
\* x = xa/10^2 + xb/10^4 + xc/10^6, all terms in units of 10^-6
RECURSIVE expSeries(_, _, _, _, _, _)
expSeries(t, n, s, xa, xb, xc) ==
    IF t = 0 THEN 0
    ELSE t + s * expSeries(((t * xa) \div 100 + (t * xb) \div 10000
                              + (t * xc) \div 1000000) \div n,
                           n + 1, s, xa, xb, xc)

\* Math.exp(num / den) in units of 10^-6, den > 0
MathExp(num, den) ==
    LET s   == IF num < 0 THEN -1 ELSE 1
        m   == s * num
        xa  == (m * 100) \div den
        r1  == (m * 100) % den
        xb  == (r1 * 100) \div den
        r2  == (r1 * 100) % den
        xc  == (r2 * 100) \div den
    IN  expSeries(1000000, 1, s, xa, xb, xc)

\* ── Apparent temperature ──────────────────────────────────────────────────

\* vapourPressure with 273.7 in place of 237.7
vapourPressure2737(rh, tempC) ==
    MulDiv(MulDiv(MathExp(1727 * tempC, 100 * (27370 + tempC)), 6105, 1000), rh, 100)

\* (rh / 100) * 6.105 * Math.exp((17.27 * tempC) / (237.7 + tempC)),
\* in units of 10^-6 hPa; tempC in hundredths of a degree
vapourPressure(rh, tempC) ==
    MulDiv(MulDiv(MathExp(1727 * tempC, 100 * (23770 + tempC)), 6105, 1000), rh, 100)

\* windSpeedMs * (1 - shelterFactor), in units of 10^-4 m/s
shelteredWind(windSpeedMs, shelterFactor) == windSpeedMs * (100 - shelterFactor)

\* tempC + 0.33 * e - 0.70 * effectiveWind - 4.00, in units of 10^-6 degrees
apparentTempRaw(tempC, e, effectiveWind) ==
    tempC * 10000 + MulDiv(e, 33, 100) - 70 * effectiveWind - 4000000

\* calculateApparentTemp returning null for a missing humidity as well
calculateApparentTempHumidityRequired(tempC, windSpeedMs, humidity, shelterFactor) ==
    IF tempC = Null \/ windSpeedMs = Null \/ humidity = Null THEN Null
    ELSE LET sf == IF shelterFactor = Null THEN 0 ELSE Val(shelterFactor)
             e  == vapourPressure(Val(humidity), Val(tempC))
             effectiveWind == shelteredWind(Val(windSpeedMs), sf)
             at == apparentTempRaw(Val(tempC), e, effectiveWind)
         IN  Some(10 * MathRound(at, 100000))

\* calculateApparentTemp with the result clamped to 50 degrees
calculateApparentTempClamped(tempC, windSpeedMs, humidity, shelterFactor) ==
    IF tempC = Null \/ windSpeedMs = Null THEN Null
    ELSE LET sf == IF shelterFactor = Null THEN 0 ELSE Val(shelterFactor)
             rh == IF humidity = Null THEN 50 ELSE Val(humidity)
             e  == vapourPressure(rh, Val(tempC))
             effectiveWind == shelteredWind(Val(windSpeedMs), sf)
             at == apparentTempRaw(Val(tempC), e, effectiveWind)
             rounded == 10 * MathRound(at, 100000)
         IN  Some(IF rounded > 5000 THEN 5000 ELSE rounded)

\* Arguments and result are Null or Some(number); the result is in hundredths
\* of a degree and is a multiple of 10 (one decimal).
calculateApparentTemp(tempC, windSpeedMs, humidity, shelterFactor) ==
    IF tempC = Null \/ windSpeedMs = Null THEN Null
    ELSE LET sf == IF shelterFactor = Null THEN 0 ELSE Val(shelterFactor)
             rh == IF humidity = Null THEN 50 ELSE Val(humidity)
             e  == vapourPressure(rh, Val(tempC))
             effectiveWind == shelteredWind(Val(windSpeedMs), sf)
             at == apparentTempRaw(Val(tempC), e, effectiveWind)
         IN  Some(10 * MathRound(at, 100000))

\* ── Comfort zone classification ───────────────────────────────────────────

\* getComfortZone with <= at the cold/cool edge
getComfortZoneColdInclusive(apparentTemp) ==
    IF apparentTemp = Null
    THEN [level |-> "unknown", label |-> "Unknown",
          advice |-> "Weather data unavailable"]
    ELSE IF Val(apparentTemp) <= 1000
    THEN [level |-> "cold", label |-> "Feels Cold",
          advice |-> "Bring warm jackets for outdoor seating"]
    ELSE IF Val(apparentTemp) < 1600
    THEN [level |-> "cool", label |-> "Feels Cool",
          advice |-> "A light jacket recommended for outdoor areas"]
    ELSE IF Val(apparentTemp) < 2200
    THEN [level |-> "mild", label |-> "Comfortable - Mild",
          advice |-> "Lovely outdoor conditions"]
    ELSE IF Val(apparentTemp) < 2800
    THEN [level |-> "warm", label |-> "Comfortable - Warm",
          advice |-> "Perfect outdoor conditions"]
    ELSE IF Val(apparentTemp) < 3400
    THEN [level |-> "hot", label |-> "Feels Hot",
          advice |-> "Seek shade or breeze - stay hydrated"]
    ELSE [level |-> "extreme", label |-> "Extreme Heat",
          advice |-> "Indoor seating strongly recommended"]

\* getComfortZone with <= at the mild/warm edge
getComfortZoneMildInclusive(apparentTemp) ==
    IF apparentTemp = Null
    THEN [level |-> "unknown", label |-> "Unknown",
          advice |-> "Weather data unavailable"]
    ELSE IF Val(apparentTemp) < 1000
    THEN [level |-> "cold", label |-> "Feels Cold",
          advice |-> "Bring warm jackets for outdoor seating"]
    ELSE IF Val(apparentTemp) < 1600
    THEN [level |-> "cool", label |-> "Feels Cool",
          advice |-> "A light jacket recommended for outdoor areas"]
    ELSE IF Val(apparentTemp) <= 2200
    THEN [level |-> "mild", label |-> "Comfortable - Mild",
          advice |-> "Lovely outdoor conditions"]
    ELSE IF Val(apparentTemp) < 2800
    THEN [level |-> "warm", label |-> "Comfortable - Warm",
          advice |-> "Perfect outdoor conditions"]
    ELSE IF Val(apparentTemp) < 3400
    THEN [level |-> "hot", label |-> "Feels Hot",
          advice |-> "Seek shade or breeze - stay hydrated"]
    ELSE [level |-> "extreme", label |-> "Extreme Heat",
          advice |-> "Indoor seating strongly recommended"]

\* apparentTemp is Null or Some(hundredths of a degree)
getComfortZone(apparentTemp) ==
    IF apparentTemp = Null
    THEN [level |-> "unknown", label |-> "Unknown",
          advice |-> "Weather data unavailable"]
    ELSE IF Val(apparentTemp) < 1000
    THEN [level |-> "cold", label |-> "Feels Cold",
          advice |-> "Bring warm jackets for outdoor seating"]
    ELSE IF Val(apparentTemp) < 1600
    THEN [level |-> "cool", label |-> "Feels Cool",
          advice |-> "A light jacket recommended for outdoor areas"]
    ELSE IF Val(apparentTemp) < 2200
    THEN [level |-> "mild", label |-> "Comfortable - Mild",
          advice |-> "Lovely outdoor conditions"]
    ELSE IF Val(apparentTemp) < 2800
    THEN [level |-> "warm", label |-> "Comfortable - Warm",
          advice |-> "Perfect outdoor conditions"]
    ELSE IF Val(apparentTemp) < 3400
    THEN [level |-> "hot", label |-> "Feels Hot",
          advice |-> "Seek shade or breeze - stay hydrated"]
    ELSE [level |-> "extreme", label |-> "Extreme Heat",
          advice |-> "Indoor seating strongly recommended"]

\* ── Wind warning ──────────────────────────────────────────────────────────

\* (windSpeedMs || 0) * profile.exposure, in units of 10^-4 m/s
exposedWind(windSpeedMs, profile) ==
    (IF windSpeedMs = Null THEN 0 ELSE Val(windSpeedMs)) * profile.exposure

\* windLevel with <= at every edge
windLevelInclusive(effectiveWind) ==
    IF effectiveWind <= 50000 THEN "green"
    ELSE IF effectiveWind <= 90000 THEN "yellow"
    ELSE IF effectiveWind <= 140000 THEN "orange"
    ELSE "red"

windLevel(effectiveWind) ==
    IF effectiveWind < 50000 THEN "green"
    ELSE IF effectiveWind < 90000 THEN "yellow"
    ELSE IF effectiveWind < 140000 THEN "orange"
    ELSE "red"

getWindWarning(windSpeedMs, venue) ==
    LET profile == getWindProfile(venue)
        effectiveWind == exposedWind(windSpeedMs, profile)
        windKmh == MathRound(effectiveWind * 36, 100000)
        level == windLevel(effectiveWind)
    IN  [level |-> level,
         label |-> CASE level = "green" -> "Calm Conditions"
                     [] level = "yellow" -> "Moderate Breeze"
                     [] level = "orange" -> "Windy"
                     [] level = "red" -> "High Wind Warning",
         advice |-> CASE level = "green" -> "Perfect for outdoor events"
                      [] level = "yellow" -> "Secure lightweight decorations"
                      [] level = "orange" -> "Recommend secure tent anchoring and marquee weights"
                      [] level = "red" -> "Outdoor events not recommended - indoor backup advised",
         effectiveWind |-> windKmh,
         exposureLabel |-> profile.label]

\* ── Inputs ────────────────────────────────────────────────────────────────

Vibes ==
    {Null, Some(""), Some("Beer Garden"), Some("Rooftop Courtyard"),
     Some("Rooftop Beer Garden"), Some("Outdoor Streetside"), Some("Bar"),
     Some("Courtyard"), Some("Pub"), Some("Lounge"), Some("Floating Bar"),
     Some("Tavern"), Some("Truck Park"), Some("Maze Garden"), Some("Warehouse"),
     Some("Waterfront"), Some("South Wharf"), Some("Stadium Precinct"),
     Some("Pop-Up Marquee"), Some("Bookshop Cafe"), Some("Boutique Hotel"),
     Some("Cocktail Lounge"), Some("Terrace")}

TagLists ==
    {Null, Some(<<>>), Some(<<"Rooftop">>), Some(<<"Views", "Rooftop", "Beer Garden">>),
     Some(<<"Sunny", "Garden", "Beer Garden">>), Some(<<"River", "Premium">>),
     Some(<<"Fireplace", "Cozy">>), Some(<<"Rooftop Bar">>), Some(<<"Hidden">>),
     Some(<<"Floating">>)}

VenueNames == {Null, Some("The Local"), Some("Rooftop Bar")}

VenueIds == {"dv-02", "dv-99"}

Venues ==
    [id : VenueIds, venueName : VenueNames, vibe : Vibes, tags : TagLists]

\* Bounds of the weather samples, in whole degrees (MaxFrostC below zero to
\* MaxTempC above) and whole m/s
MaxFrostC == 5
MaxTempC == 40
MaxWindMs == 15
MaxGustMs == 40

Temperatures == {Null} \cup {Some(100 * t) : t \in (-MaxFrostC)..MaxTempC}

WindSpeeds == {Null} \cup {Some(100 * w) : w \in 0..MaxWindMs}

Humidities == {Null, Some(30), Some(50), Some(90)}

ShelterFactors ==
    {Null} \cup {Some(WIND_EXPOSURE_PROFILES[p].shelterFactor) : p \in ProfileTypes}

\* every hundredth of a degree
ApparentTemps == {Null} \cup {Some(a) : a \in (-100 * MaxFrostC)..(100 * MaxTempC)}

\* every quarter of a m/s
GustSpeeds == {Null} \cup {Some(25 * w) : w \in 0..(4 * MaxGustMs)}

WarnVenues ==
    {v \in Venues : v.id = "dv-99" /\ v.venueName = Null
                    /\ v.tags \in {Null, Some(<<"Rooftop">>)}}

NoVenue == [id |-> "", venueName |-> Null, vibe |-> Null, tags |-> Null]

NoArgs ==
    [venue |-> NoVenue, tempC |-> Null, windSpeedMs |-> Null, humidity |-> Null,
     shelterFactor |-> Null, apparentTemp |-> Null]

\* ── Calls ─────────────────────────────────────────────────────────────────

\* The venue objects of the callers, by reference
VenueHeap ==
    [v1 |-> [id |-> "dv-02", venueName |-> Some("Rooftop Bar"),
             vibe |-> Some("Rooftop Courtyard"),
             tags |-> Some(<<"Views", "Rooftop", "Beer Garden">>)],
     v2 |-> [id |-> "dv-99", venueName |-> Some("The Local"),
             vibe |-> Some("Courtyard"), tags |-> Some(<<"Hidden">>)]]

VenueRefs == DOMAIN VenueHeap

Callers == {"c1", "c2"}

\* The last call of a caller: the function, its arguments, the clock when it
\* was made (at) and its result
NoCalls == [c \in Callers |-> [fn |-> "none", args |-> NoArgs, at |-> 0, ret |-> Null]]

\* No call has been made; the clock, which these calls do not read, is at
\* midnight.
Init ==
    /\ fn = "none"
    /\ args = NoArgs
    /\ ret = Null
    /\ clock = 0
    /\ heap = VenueHeap
    /\ calls = NoCalls

CallDetectWindExposure ==
    /\ fn = "none"
    /\ \E v \in Venues :
        /\ fn' = "detectWindExposure"
        /\ args' = [NoArgs EXCEPT !.venue = v]
        /\ ret' = detectWindExposure(v)
    /\ UNCHANGED <<clock, heap, calls>>

CallGetWindProfile ==
    /\ fn = "none"
    /\ \E v \in Venues :
        /\ fn' = "getWindProfile"
        /\ args' = [NoArgs EXCEPT !.venue = v]
        /\ ret' = getWindProfile(v)
    /\ UNCHANGED <<clock, heap, calls>>

CallCalculateApparentTemp ==
    /\ fn = "none"
    /\ \E t \in Temperatures, w \in WindSpeeds, h \in Humidities, sf \in ShelterFactors :
        /\ fn' = "calculateApparentTemp"
        /\ args' = [NoArgs EXCEPT !.tempC = t, !.windSpeedMs = w,
                                  !.humidity = h, !.shelterFactor = sf]
        /\ ret' = calculateApparentTemp(t, w, h, sf)
    /\ UNCHANGED <<clock, heap, calls>>

CallGetComfortZone ==
    /\ fn = "none"
    /\ \E a \in ApparentTemps :
        /\ fn' = "getComfortZone"
        /\ args' = [NoArgs EXCEPT !.apparentTemp = a]
        /\ ret' = getComfortZone(a)
    /\ UNCHANGED <<clock, heap, calls>>

CallGetWindWarning ==
    /\ fn = "none"
    /\ \E w \in GustSpeeds, v \in WarnVenues :
        /\ fn' = "getWindWarning"
        /\ args' = [NoArgs EXCEPT !.windSpeedMs = w, !.venue = v]
        /\ ret' = getWindWarning(w, v)
    /\ UNCHANGED <<clock, heap, calls>>

\* The caller has consumed the result; the engine keeps nothing of the call.
Return ==
    /\ fn # "none"
    /\ fn' = "none"
    /\ args' = NoArgs
    /\ ret' = Null
    /\ UNCHANGED <<clock, heap, calls>>

Next ==
    \/ CallDetectWindExposure
    \/ CallGetWindProfile
    \/ CallCalculateApparentTemp
    \/ CallGetComfortZone
    \/ CallGetWindWarning
    \/ Return

Spec == Init /\ [][Next]_vars

\* ── IEEE-754 doubles ──────────────────────────────────────────────────────
\* The hourly forecast divides and multiplies wind speeds by the diurnal
\* multipliers; the quotients are no decimals, and their rounding decides
\* ties of Math.round and comparisons at the tier edges.  These operators
\* compute JavaScript's number arithmetic exactly, for non-negative numbers.
\* A natural number is a little-endian sequence of limbs in base 2^14.  A
\* positive double is [m |-> mantissa, e |-> exponent], value m * 2^e, with
\* 2^52 <= m < 2^53 in four limbs; zero is FpZero.

Limb == 2^14

limbAt(a, i) == IF i >= 1 /\ i <= Len(a) THEN a[i] ELSE 0

\* carry propagation of a sequence of column sums
RECURSIVE bnCarry(_, _)
bnCarry(cols, carry) ==
    IF Len(cols) = 0 THEN (IF carry = 0 THEN <<>> ELSE <<carry>>)
    ELSE LET s == cols[1] + carry
         IN  <<s % Limb>> \o bnCarry(Tail(cols), s \div Limb)

\* a natural number below 2^31 as limbs
bnFromInt(n) == <<n % Limb, (n \div Limb) % Limb, n \div (Limb * Limb)>>

\* the value of a number known to be below 2^31
bnToInt(a) == limbAt(a, 1) + Limb * limbAt(a, 2) + Limb * Limb * limbAt(a, 3)

\* product of two numbers of at most four limbs (eight limbs)
bnMul(a, b) ==
    LET col(k) == limbAt(a, 1) * limbAt(b, k) + limbAt(a, 2) * limbAt(b, k - 1)
                  + limbAt(a, 3) * limbAt(b, k - 2) + limbAt(a, 4) * limbAt(b, k - 3)
    IN  bnCarry(<<col(1), col(2), col(3), col(4), col(5), col(6), col(7), 0>>, 0)

\* number of significant limbs
RECURSIVE bnTop(_, _)
bnTop(a, i) == IF i = 0 THEN 0 ELSE IF a[i] # 0 THEN i ELSE bnTop(a, i - 1)

\* number of significant bits of a limb
RECURSIVE bitLen(_)
bitLen(x) == IF x = 0 THEN 0 ELSE 1 + bitLen(x \div 2)

bnBitLen(a) ==
    LET t == bnTop(a, Len(a)) IN IF t = 0 THEN 0 ELSE 14 * (t - 1) + bitLen(a[t])

\* floor(a / 2^k), its four low limbs
bnShr(a, k) ==
    LET s == k \div 14
        r == k % 14
        limb(j) == (limbAt(a, j + s) \div 2^r) + (limbAt(a, j + s + 1) % 2^r) * 2^(14 - r)
    IN  <<limb(1), limb(2), limb(3), limb(4)>>

\* a * 2^k, its four low limbs
bnShl(a, k) ==
    LET s == k \div 14
        r == k % 14
        limb(j) == (limbAt(a, j - s) % 2^(14 - r)) * 2^r + (limbAt(a, j - s - 1) \div 2^(14 - r))
    IN  <<limb(1), limb(2), limb(3), limb(4)>>

\* a * 2^k, its eight low limbs
bnShlWide(a, k) ==
    LET s == k \div 14
        r == k % 14
        limb(j) == (limbAt(a, j - s) % 2^(14 - r)) * 2^r + (limbAt(a, j - s - 1) \div 2^(14 - r))
    IN  <<limb(1), limb(2), limb(3), limb(4), limb(5), limb(6), limb(7), limb(8)>>

\* bit k (from 0) of a
bnBit(a, k) == (limbAt(a, (k \div 14) + 1) \div 2^(k % 14)) % 2

\* a mod 2^k = 0
bnLowZero(a, k) ==
    /\ \A j \in 1..(k \div 14) : limbAt(a, j) = 0
    /\ limbAt(a, (k \div 14) + 1) % 2^(k % 14) = 0

\* a + 1
bnInc(a) == bnCarry(a, 1)

\* comparison: a >= b, both of the same length
RECURSIVE bnGeqFrom(_, _, _)
bnGeqFrom(a, b, i) ==
    IF i = 0 THEN TRUE
    ELSE IF a[i] # b[i] THEN a[i] > b[i]
    ELSE bnGeqFrom(a, b, i - 1)

bnGeq(a, b) == bnGeqFrom(a, b, Len(a))

\* a - b for a >= b, both of the same length
RECURSIVE bnSubFrom(_, _, _, _)
bnSubFrom(a, b, i, borrow) ==
    IF i > Len(a) THEN <<>>
    ELSE LET d == a[i] - b[i] - borrow
         IN  <<IF d < 0 THEN d + Limb ELSE d>>
                 \o bnSubFrom(a, b, i + 1, IF d < 0 THEN 1 ELSE 0)

bnSub(a, b) == bnSubFrom(a, b, 1, 0)

FpZero == [m |-> <<0, 0, 0, 0>>, e |-> 0]

fpIsZero(x) == x.m = <<0, 0, 0, 0>>

\* The double nearest to n * 2^e (ties to even) for a natural number n # 0
\* given in limbs; sticky tells that the exact value is above n * 2^e
fpNormalize(n, e, sticky) ==
    LET len  == bnBitLen(n)
    IN  IF len = 0 THEN FpZero
        ELSE IF len <= 53
        THEN [m |-> bnShl(n, 53 - len), e |-> e - (53 - len)]
        ELSE LET k     == len - 53
                 q     == bnShr(n, k)
                 half  == bnBit(n, k - 1) = 1
                 rest  == sticky \/ ~bnLowZero(n, k - 1)
                 up    == half /\ (rest \/ q[1] % 2 = 1)
                 qq    == IF up THEN bnInc(q) ELSE q
             IN  IF bnBitLen(qq) > 53
                 THEN [m |-> bnShr(qq, 1), e |-> e + k + 1]
                 ELSE [m |-> SubSeq(qq, 1, 4), e |-> e + k]

\* the double of a natural number below 2^31
fpInt(n) == IF n = 0 THEN FpZero ELSE fpNormalize(bnFromInt(n), 0, FALSE)

\* IEEE multiplication
fpMul(x, y) ==
    IF fpIsZero(x) \/ fpIsZero(y) THEN FpZero
    ELSE fpNormalize(bnMul(x.m, y.m), x.e + y.e, FALSE)

\* one step of binary long division by d: the next quotient bit
bnDivStep(st, d) ==
    LET r2 == bnShl(st.r, 1)
        q2 == bnShl(st.q, 1)
    IN  IF bnGeq(r2, d)
        THEN [q |-> <<q2[1] + 1, q2[2], q2[3], q2[4]>>, r |-> bnSub(r2, d)]
        ELSE [q |-> q2, r |-> r2]

\* steps more quotient bits; a zero remainder ends the division early
RECURSIVE bnDivBits(_, _, _)
bnDivBits(st, d, steps) ==
    IF steps = 0 THEN st
    ELSE LET st2 == bnDivStep(st, d)
         IN  IF st2.r = <<0, 0, 0, 0>>
             THEN [q |-> bnShl(st2.q, steps - 1), r |-> st2.r]
             ELSE bnDivBits(st2, d, steps - 1)

\* IEEE division, y # 0
fpDiv(x, y) ==
    IF fpIsZero(x) THEN FpZero
    ELSE LET first == bnGeq(x.m, y.m)
             st0   == [q |-> IF first THEN <<1, 0, 0, 0>> ELSE <<0, 0, 0, 0>>,
                       r |-> IF first THEN bnSub(x.m, y.m) ELSE x.m]
             st    == bnDivBits(st0, y.m, 55)
         IN  fpNormalize(st.q, x.e - y.e - 55, st.r # <<0, 0, 0, 0>>)

\* short division of a[1..i] by a limb d, from the top limb down
RECURSIVE bnDivLimb(_, _, _, _)
bnDivLimb(a, d, i, rem) ==
    IF i = 0 THEN [q |-> <<>>, r |-> rem]
    ELSE LET cur  == rem * Limb + a[i]
             rest == bnDivLimb(a, d, i - 1, cur % d)
         IN  [q |-> rest.q \o <<cur \div d>>, r |-> rest.r]

\* the double of the decimal literal n / d, for 0 <= n < 2^14 and 0 < d < 2^14:
\* the double nearest to the quotient
fpDec(n, d) ==
    IF n = 0 THEN FpZero
    ELSE LET st == bnDivLimb(<<0, 0, 0, 0, 0, n>>, d, 6, 0)
         IN  fpNormalize(st.q, -70, st.r # 0)

\* x < y
fpLt(x, y) ==
    IF fpIsZero(y) THEN FALSE
    ELSE IF fpIsZero(x) THEN TRUE
    ELSE IF x.e # y.e THEN x.e < y.e
    ELSE x.m # y.m /\ bnGeq(y.m, x.m)

\* IEEE subtraction x - y for x >= y >= 0.  A y more than 59 binary places
\* below x is less than a quarter of the last place of x, so x is the nearest
\* double.
fpSub(x, y) ==
    IF fpIsZero(y) THEN x
    ELSE IF x.e - y.e > 59 THEN x
    ELSE fpNormalize(bnSub(bnShlWide(x.m, x.e - y.e), y.m \o <<0, 0, 0, 0>>), y.e, FALSE)

\* Math.round(x) = floor(x + 1/2) for 0 <= x < 2^30, as an integer
fpRound(x) ==
    IF fpIsZero(x) THEN 0
    ELSE IF x.e >= 0 THEN bnToInt(bnShl(x.m, x.e))
    ELSE IF -x.e > 54 THEN 0
    ELSE bnToInt(bnShr(x.m, -x.e)) + bnBit(x.m, -x.e - 1)

\* x < n for a natural number n
fpLess(x, n) ==
    IF fpIsZero(x) THEN n > 0
    ELSE IF x.e >= 0 THEN bnToInt(bnShl(x.m, x.e)) < n
    ELSE IF -x.e > 54 THEN n > 0
    ELSE bnToInt(bnShr(x.m, -x.e)) < n

\* Math.round of the exact product x * k, k a natural number below 2^31:
\* the nearest integer to x * k
fpScale(x, k) ==
    IF fpIsZero(x) \/ k = 0 THEN 0
    ELSE LET p == bnMul(x.m, bnFromInt(k))
         IN  IF x.e >= 0 THEN bnToInt(bnShl(p, x.e))
             ELSE bnToInt(bnShr(p, -x.e)) + bnBit(p, -x.e - 1)

\* ── Hourly forecast ───────────────────────────────────────────────────────
\* The clock counts the minutes of the day since midnight.

\* getHours that rounds to the nearest hour
getHoursRounded(now) == ((now + 30) \div 60) % 24

\* Date.prototype.getHours
getHours(now) == (now \div 60) % 24

\* Diurnal multipliers and offsets, in hundredths, for the hours 0..23

windMultipliers ==
    [h \in 0..23 |->
        <<30, 25, 20, 20, 25, 30, 35, 40, 50, 60, 70, 85,
          95, 105, 115, 125, 130, 120, 100, 80, 65, 50, 40, 35>>[h + 1]]

tempOffsets ==
    [h \in 0..23 |->
        <<-300, -350, -400, -450, -400, -350, -300, -200, -100, 0, 100, 200,
          300, 350, 400, 350, 300, 200, 100, 0, -100, -150, -200, -250>>[h + 1]]

\* windMultipliers[h] || 1, as a double
windMultiplier(h) ==
    IF windMultipliers[h] = 0 THEN fpInt(1) ELSE fpDec(windMultipliers[h], 100)

\* calculateApparentTemp for a wind speed that is a double: the effective
\* wind windSpeedMs * (1 - shelterFactor) is computed in doubles and taken to
\* the nearest 10^-4 m/s for the Steadman sum.  tempC and shelterFactor are
\* numbers, humidity is Null or Some(percent).
calculateApparentTempOfDouble(tempC, windSpeedMs, humidity, shelterFactor) ==
    LET rh == IF humidity = Null THEN 50 ELSE Val(humidity)
        e  == vapourPressure(rh, tempC)
        effectiveWind ==
            fpScale(fpMul(windSpeedMs, fpSub(fpInt(1), fpDec(shelterFactor, 100))), 10000)
        at == apparentTempRaw(tempC, e, effectiveWind)
    IN  Some(10 * MathRound(at, 100000))

\* windLevel for an effective wind that is a double
windLevelOfDouble(effectiveWind) ==
    IF fpLess(effectiveWind, 5) THEN "green"
    ELSE IF fpLess(effectiveWind, 9) THEN "yellow"
    ELSE IF fpLess(effectiveWind, 14) THEN "orange"
    ELSE "red"

\* getWindWarning for a wind speed that is a double
getWindWarningOfDouble(windSpeedMs, venue) ==
    LET profile == getWindProfile(venue)
        effectiveWind == fpMul(windSpeedMs, fpDec(profile.exposure, 100))
        windKmh == fpRound(fpMul(effectiveWind, fpDec(36, 10)))
        level == windLevelOfDouble(effectiveWind)
    IN  [level |-> level,
         label |-> CASE level = "green" -> "Calm Conditions"
                     [] level = "yellow" -> "Moderate Breeze"
                     [] level = "orange" -> "Windy"
                     [] level = "red" -> "High Wind Warning",
         advice |-> CASE level = "green" -> "Perfect for outdoor events"
                      [] level = "yellow" -> "Secure lightweight decorations"
                      [] level = "orange" -> "Recommend secure tent anchoring and marquee weights"
                      [] level = "red" -> "Outdoor events not recommended - indoor backup advised",
         effectiveWind |-> windKmh,
         exposureLabel |-> profile.label]

\* The label of the hour h: 1am .. 11am, 12pm .. 11pm, 12am
hourLabel(h) ==
    ToString(IF h = 0 THEN 12 ELSE IF h > 12 THEN h - 12 ELSE h)
        \o (IF h >= 12 THEN "pm" ELSE "am")

\* forecastPoint that classifies the air temperature of the hour
forecastPointComfortOfAirTemp(i, currentHour, baseWind, baseTemp, humidity, venue, profile) ==
    LET h         == (currentHour + i) % 24
        hourWind  == fpMul(baseWind, windMultiplier(h))
        hourTemp  == baseTemp + tempOffsets[h]
        feelsLike == calculateApparentTempOfDouble(hourTemp, hourWind, humidity,
                                                   profile.shelterFactor)
    IN  [hour        |-> h,
         label       |-> IF i = 0 THEN "Now" ELSE hourLabel(h),
         temp        |-> MathRound(hourTemp, 100),
         wind        |-> fpRound(fpMul(hourWind, fpDec(36, 10))),
         windMs      |-> fpRound(fpMul(hourWind, fpInt(10))),
         feelsLike   |-> MathRound(Val(feelsLike), 100),
         comfort     |-> getComfortZone(Some(hourTemp)),
         windWarning |-> getWindWarningOfDouble(hourWind, venue),
         isCurrent   |-> i = 0]

\* The point of the loop index i.  baseWind is a double, baseTemp is in
\* hundredths of a degree; temp and feelsLike are in whole degrees, wind in
\* whole km/h, windMs in tenths of a m/s.
forecastPoint(i, currentHour, baseWind, baseTemp, humidity, venue, profile) ==
    LET h         == (currentHour + i) % 24
        hourWind  == fpMul(baseWind, windMultiplier(h))
        hourTemp  == baseTemp + tempOffsets[h]
        feelsLike == calculateApparentTempOfDouble(hourTemp, hourWind, humidity,
                                                   profile.shelterFactor)
    IN  [hour        |-> h,
         label       |-> IF i = 0 THEN "Now" ELSE hourLabel(h),
         temp        |-> MathRound(hourTemp, 100),
         wind        |-> fpRound(fpMul(hourWind, fpDec(36, 10))),
         windMs      |-> fpRound(fpMul(hourWind, fpInt(10))),
         feelsLike   |-> MathRound(Val(feelsLike), 100),
         comfort     |-> getComfortZone(feelsLike),
         windWarning |-> getWindWarningOfDouble(hourWind, venue),
         isCurrent   |-> i = 0]

\* The loop for (i = 0; i < 24; i++) from index i on: the points pushed
RECURSIVE forecastLoop(_, _, _, _, _, _, _)
forecastLoop(i, currentHour, baseWind, baseTemp, humidity, venue, profile) ==
    IF i < 24
    THEN <<forecastPoint(i, currentHour, baseWind, baseTemp, humidity, venue, profile)>>
            \o forecastLoop(i + 1, currentHour, baseWind, baseTemp, humidity, venue, profile)
    ELSE <<>>

\* generateHourlyForecast that anchors the series at hour 0 of the day
generateHourlyForecastFromMidnight(currentTemp, currentWind, humidity, venue, now) ==
    LET profile  == getWindProfile(venue)
        currentHour == getHours(now)
        baseWind == fpDiv(fpDec(currentWind, 100), windMultiplier(currentHour))
        baseTemp == currentTemp - tempOffsets[currentHour]
    IN  forecastLoop(0, 0, baseWind, baseTemp, humidity, venue, profile)

\* currentTemp and currentWind are numbers in hundredths (degrees, m/s),
\* humidity is Null or Some(percent), now is new Date(), the reading of the
\* clock.  The value is the sequence of the 24 points.
generateHourlyForecast(currentTemp, currentWind, humidity, venue, now) ==
    LET profile  == getWindProfile(venue)
        currentHour == getHours(now)
        baseWind == fpDiv(fpDec(currentWind, 100), windMultiplier(currentHour))
        baseTemp == currentTemp - tempOffsets[currentHour]
    IN  forecastLoop(0, currentHour, baseWind, baseTemp, humidity, venue, profile)

\* ── Forecast calls ────────────────────────────────────────────────────────

\* current conditions: temperature and wind in hundredths, humidity in percent
ForecastTemps == {2400}
ForecastWinds == {0, 400, 1125, 1375}
ForecastHumidities == {Some(50)}

\* The app can be opened at any hour, here at twenty past.
InitForecast ==
    /\ fn = "none"
    /\ args = NoArgs
    /\ ret = Null
    /\ clock \in {60 * h + 20 : h \in 0..23}
    /\ heap = VenueHeap
    /\ calls = NoCalls

CallGenerateHourlyForecast ==
    /\ fn = "none"
    /\ \E t \in ForecastTemps, w \in ForecastWinds, h \in ForecastHumidities, v \in VenueRefs :
        /\ fn' = "generateHourlyForecast"
        /\ args' = [currentTemp |-> t, currentWind |-> w, humidity |-> h, venue |-> heap[v]]
        /\ ret' = generateHourlyForecast(t, w, h, heap[v], clock)
    /\ UNCHANGED <<clock, heap, calls>>

\* ── Two callers ───────────────────────────────────────────────────────────
\* Two callers (components, effects) share the engine, the venue objects and
\* the clock.  JavaScript runs each call to completion, so their calls
\* interleave call by call, in any order, while the clock advances.

\* The half hours that pass after 13:00
MaxTicks == 2

ConcurrentTemps == {2400}
ConcurrentWinds == {400}
ConcurrentHumidities == {Some(50)}

\* venueAfterCall of an engine that lower-cases the tags of the venue in place
venueAfterCallLowerCased(venue) ==
    [venue EXCEPT !.tags = IF venue.tags = Null THEN Null
                           ELSE Some([i \in 1..Len(Val(venue.tags)) |->
                                        toLowerCase(Val(venue.tags)[i])])]

\* The venue object after detectWindExposure, getWindProfile or
\* generateHourlyForecast was handed it: they assign to no property of venue
\* (tags.map builds a new array, getWindProfile a new object).
venueAfterCall(venue) == venue

InitConcurrent ==
    /\ fn = "none"
    /\ args = NoArgs
    /\ ret = Null
    /\ clock = 13 * 60
    /\ heap = VenueHeap
    /\ calls = NoCalls

CallerGetWindProfile ==
    /\ \E c \in Callers, v \in VenueRefs :
        /\ calls[c].fn = "none"
        /\ calls' = [calls EXCEPT ![c] = [fn |-> "getWindProfile", args |-> [venue |-> v],
                                          at |-> clock, ret |-> getWindProfile(heap[v])]]
        /\ heap' = [heap EXCEPT ![v] = venueAfterCall(heap[v])]
    /\ UNCHANGED <<fn, args, ret, clock>>

CallerGenerateHourlyForecast ==
    /\ \E c \in Callers, v \in VenueRefs, t \in ConcurrentTemps, w \in ConcurrentWinds,
          h \in ConcurrentHumidities :
        /\ calls[c].fn = "none"
        /\ calls' = [calls EXCEPT ![c] =
                        [fn |-> "generateHourlyForecast",
                         args |-> [currentTemp |-> t, currentWind |-> w, humidity |-> h,
                                   venue |-> v],
                         at |-> clock,
                         ret |-> generateHourlyForecast(t, w, h, heap[v], clock)]]
        /\ heap' = [heap EXCEPT ![v] = venueAfterCall(heap[v])]
    /\ UNCHANGED <<fn, args, ret, clock>>

\* The caller has consumed the result.
CallerReturn ==
    /\ \E c \in Callers :
        /\ calls[c].fn # "none"
        /\ calls' = [calls EXCEPT ![c] = NoCalls[c]]
    /\ UNCHANGED <<fn, args, ret, clock, heap>>

\* Half an hour passes.
Tick ==
    /\ clock < 13 * 60 + 30 * MaxTicks
    /\ clock' = clock + 30
    /\ UNCHANGED <<fn, args, ret, heap, calls>>

NextConcurrent ==
    \/ CallerGetWindProfile
    \/ CallerGenerateHourlyForecast
    \/ CallerReturn
    \/ Tick

SpecConcurrent == InitConcurrent /\ [][NextConcurrent]_vars

\* ── Wind trend ────────────────────────────────────────────────────────────
\* A series is Null or Some(sequence of points).  A point's windMs is kept in
\* whole tenths of a m/s (generateHourlyForecast stores Math.round(w * 10) / 10)
\* and read as the double of that decimal.

windMsValue(point) == fpDec(point.windMs, 10)

\* The three results, without their icon (an emoji)
WindTrends ==
    [steady   |-> [direction |-> "steady", label |-> "Wind conditions steady"],
     building |-> [direction |-> "building", label |-> "Wind building through afternoon"],
     calming  |-> [direction |-> "calming", label |-> "Winds calming down"]]

\* hourlyForecast[4]?.windMs || inTwoHours: the point four hours ahead, or the
\* point two hours ahead when there is no fifth point or its windMs is 0
inFourHoursPoint(series) ==
    IF Len(series) >= 5 /\ series[5].windMs # 0 THEN series[5] ELSE series[3]

\* getWindTrend with a relative threshold of 0.2
getWindTrendLowThreshold(hourlyForecast) ==
    IF hourlyForecast = Null \/ Len(Val(hourlyForecast)) < 4 THEN WindTrends.steady
    ELSE LET series      == Val(hourlyForecast)
             now         == windMsValue(series[1])
             inFourHours == windMsValue(inFourHoursPoint(series))
             rising      == ~fpLt(inFourHours, now)
             delta       == IF rising THEN fpSub(inFourHours, now) ELSE fpSub(now, inFourHours)
             ratio       == IF ~fpIsZero(now) THEN fpDiv(delta, now) ELSE delta
             large       == fpLt(fpDec(2, 10), ratio) \/ fpLt(fpInt(3), delta)
         IN  IF rising /\ large THEN WindTrends.building
             ELSE IF ~rising /\ large THEN WindTrends.calming
             ELSE WindTrends.steady

\* getWindTrend that reads the first and the fifth point before the length check
getWindTrendUnguarded(hourlyForecast) ==
    IF hourlyForecast = Null \/ Len(Val(hourlyForecast)) < 4 THEN WindTrends.building
    ELSE WindTrends.steady

\* delta is kept as its sign (rising) and its magnitude; ratio > 0.3 and
\* ratio < -0.3 are then both "magnitude of ratio > 0.3" for the matching sign.
getWindTrend(hourlyForecast) ==
    IF hourlyForecast = Null \/ Len(Val(hourlyForecast)) < 4 THEN WindTrends.steady
    ELSE LET series      == Val(hourlyForecast)
             now         == windMsValue(series[1])
             inFourHours == windMsValue(inFourHoursPoint(series))
             rising      == ~fpLt(inFourHours, now)
             delta       == IF rising THEN fpSub(inFourHours, now) ELSE fpSub(now, inFourHours)
             ratio       == IF ~fpIsZero(now) THEN fpDiv(delta, now) ELSE delta
             large       == fpLt(fpDec(3, 10), ratio) \/ fpLt(fpInt(3), delta)
         IN  IF rising /\ large THEN WindTrends.building
             ELSE IF ~rising /\ large THEN WindTrends.calming
             ELSE WindTrends.steady

\* ── Optimal booking time ──────────────────────────────────────────────────
\* A point's feelsLike is in whole degrees (Math.round(feelsLike)).

\* A property read from undefined: the call ends with this exception instead
\* of a value.
TypeError == <<"TypeError", "Cannot read properties of undefined">>

comfortScore(level) ==
    CASE level = "warm" -> 5
      [] level = "mild" -> 4
      [] level = "cool" -> 2
      [] level = "hot" -> 1
      [] OTHER -> 0

\* windScore with the penalty of red on orange as well
windScoreHarsh(level) ==
    CASE level = "green" -> 3
      [] level = "yellow" -> 1
      [] OTHER -> -3

windScore(level) ==
    CASE level = "green" -> 3
      [] level = "yellow" -> 1
      [] level = "orange" -> -1
      [] OTHER -> -3

daytimeScore(hour) ==
    (IF hour >= 9 /\ hour <= 21 THEN 1 ELSE 0) + (IF hour >= 10 /\ hour <= 16 THEN 1 ELSE 0)

hourScore(h) == comfortScore(h.comfort.level) + windScore(h.windWarning.level) + daytimeScore(h.hour)

\* hourlyForecast.map(h => ({ ...h, score }))
scoredSeries(series) == [i \in 1..Len(series) |-> hourScore(series[i])]

\* scored[i].score + scored[i + 1].score + scored[i + 2].score, i from 0
windowScore(scored, i) == scored[i + 1] + scored[i + 2] + scored[i + 3]

\* bestStartLoop that also takes a window of equal score
RECURSIVE bestStartLoopLatest(_, _, _, _)
bestStartLoopLatest(scored, i, bestStart, bestScore) ==
    IF ~(i < Len(scored) - 2) THEN bestStart
    ELSE IF bestScore = Null \/ windowScore(scored, i) >= Val(bestScore)
         THEN bestStartLoopLatest(scored, i + 1, i, Some(windowScore(scored, i)))
         ELSE bestStartLoopLatest(scored, i + 1, bestStart, bestScore)

\* The loop over the 3-hour windows, from index i on; bestScore is Null for
\* -Infinity.  Its value is the final bestStart.
RECURSIVE bestStartLoop(_, _, _, _)
bestStartLoop(scored, i, bestStart, bestScore) ==
    IF ~(i < Len(scored) - 2) THEN bestStart
    ELSE IF bestScore = Null \/ windowScore(scored, i) > Val(bestScore)
         THEN bestStartLoop(scored, i + 1, i, Some(windowScore(scored, i)))
         ELSE bestStartLoop(scored, i + 1, bestStart, bestScore)

bestStartOf(series) == bestStartLoop(scoredSeries(series), 0, 0, Null)

fmtHour(h) ==
    IF h = 0 \/ h = 24 THEN "12am"
    ELSE IF h = 12 THEN "12pm"
    ELSE IF h > 12 THEN ToString(h - 12) \o "pm"
    ELSE ToString(h) \o "am"

\* getOptimalBookingTime that truncates the mean of the window
getOptimalBookingTimeTruncated(hourlyForecast) ==
    IF hourlyForecast = Null \/ Len(Val(hourlyForecast)) = 0 THEN Null
    ELSE LET series    == Val(hourlyForecast)
             bestStart == bestStartOf(series)
         IN  IF bestStart + 3 > Len(series) THEN TypeError
             ELSE LET startHour    == series[bestStart + 1]
                      endHour      == series[bestStart + 3]
                      avgFeelsLike == (startHour.feelsLike + series[bestStart + 2].feelsLike
                                       + endHour.feelsLike) \div 3
                  IN  Some([startHour    |-> startHour.hour,
                            endHour      |-> (endHour.hour + 1) % 24,
                            startLabel   |-> fmtHour(startHour.hour),
                            endLabel     |-> fmtHour((endHour.hour + 1) % 24),
                            avgFeelsLike |-> avgFeelsLike,
                            avgWindLevel |-> startHour.windWarning.level,
                            reason       |-> "Feels like " \o ToString(avgFeelsLike) \o "\\u00B0C with "
                                             \o toLowerCase(startHour.windWarning.label) \o " conditions"])

\* The value is Null, Some(window) or TypeError.  With fewer than three points
\* the loop does not run, scored[bestStart + 1] or scored[bestStart + 2] is
\* undefined and reading its feelsLike throws.  The degree sign of reason is
\* written as its escape.
getOptimalBookingTime(hourlyForecast) ==
    IF hourlyForecast = Null \/ Len(Val(hourlyForecast)) = 0 THEN Null
    ELSE LET series    == Val(hourlyForecast)
             bestStart == bestStartOf(series)
         IN  IF bestStart + 3 > Len(series) THEN TypeError
             ELSE LET startHour    == series[bestStart + 1]
                      endHour      == series[bestStart + 3]
                      avgFeelsLike == MathRound(startHour.feelsLike + series[bestStart + 2].feelsLike
                                                + endHour.feelsLike, 3)
                  IN  Some([startHour    |-> startHour.hour,
                            endHour      |-> (endHour.hour + 1) % 24,
                            startLabel   |-> fmtHour(startHour.hour),
                            endLabel     |-> fmtHour((endHour.hour + 1) % 24),
                            avgFeelsLike |-> avgFeelsLike,
                            avgWindLevel |-> startHour.windWarning.level,
                            reason       |-> "Feels like " \o ToString(avgFeelsLike) \o "\\u00B0C with "
                                             \o toLowerCase(startHour.windWarning.label) \o " conditions"])

\* ── The booking window of a forecast ───────────────────────────────────────

\* The card hands the forecast it has just generated to getOptimalBookingTime.
CallGetOptimalBookingTimeOfForecast ==
    /\ fn = "generateHourlyForecast"
    /\ fn' = "getOptimalBookingTime"
    /\ args' = [hourlyForecast |-> Some(ret)]
    /\ ret' = getOptimalBookingTime(Some(ret))
    /\ UNCHANGED <<clock, heap, calls>>

NextForecast ==
    \/ CallGenerateHourlyForecast
    \/ CallGetOptimalBookingTimeOfForecast
    \/ Return

SpecForecast == InitForecast /\ [][NextForecast]_vars

\* ── Forecast of missing readings ──────────────────────────────────────────
\* The callers pass weather.main?.temp and weather.wind?.speed, which are
\* undefined when the field is absent and null when the payload says so.  A
\* reading is Null, Undefined or Some(hundredths).

Undefined == <<"undefined", "undefined">>

\* The number that is not a number; a number is NaN or Some(value)
NaN == <<"NaN", "NaN">>

\* ToNumber of an operand of - and /: null is 0, undefined is NaN
toNumber(v) == IF v = Null THEN Some(0) ELSE IF v = Undefined THEN NaN ELSE v

\* calculateApparentTemp of numbers: NaN == null is false and the sum is NaN
calculateApparentTempOfNumber(tempC, windSpeedMs, humidity, shelterFactor) ==
    IF tempC = NaN \/ windSpeedMs = NaN THEN NaN
    ELSE calculateApparentTempOfDouble(Val(tempC), Val(windSpeedMs), humidity, shelterFactor)

\* getComfortZone of a number: NaN == null is false and every NaN < edge is
\* false, so that the last return is taken
getComfortZoneOfNumber(apparentTemp) ==
    IF apparentTemp = NaN
    THEN [level |-> "extreme", label |-> "Extreme Heat",
          advice |-> "Indoor seating strongly recommended"]
    ELSE getComfortZone(apparentTemp)

\* getWindWarning of a number: NaN || 0 is 0
getWindWarningOfNumber(windSpeedMs, venue) ==
    IF windSpeedMs = NaN THEN getWindWarning(Some(0), venue)
    ELSE getWindWarningOfDouble(Val(windSpeedMs), venue)

\* The point of the loop index i for a baseWind and a baseTemp that are
\* numbers; Math.round(NaN) is NaN.
forecastPointOfNumber(i, currentHour, baseWind, baseTemp, humidity, venue, profile) ==
    LET h         == (currentHour + i) % 24
        hourWind  == IF baseWind = NaN THEN NaN
                     ELSE Some(fpMul(Val(baseWind), windMultiplier(h)))
        hourTemp  == IF baseTemp = NaN THEN NaN ELSE Some(Val(baseTemp) + tempOffsets[h])
        feelsLike == calculateApparentTempOfNumber(hourTemp, hourWind, humidity,
                                                   profile.shelterFactor)
    IN  [hour        |-> h,
         label       |-> IF i = 0 THEN "Now" ELSE hourLabel(h),
         temp        |-> IF hourTemp = NaN THEN NaN ELSE Some(MathRound(Val(hourTemp), 100)),
         wind        |-> IF hourWind = NaN THEN NaN
                         ELSE Some(fpRound(fpMul(Val(hourWind), fpDec(36, 10)))),
         windMs      |-> IF hourWind = NaN THEN NaN
                         ELSE Some(fpRound(fpMul(Val(hourWind), fpInt(10)))),
         feelsLike   |-> IF feelsLike = NaN THEN NaN ELSE Some(MathRound(Val(feelsLike), 100)),
         comfort     |-> getComfortZoneOfNumber(feelsLike),
         windWarning |-> getWindWarningOfNumber(hourWind, venue),
         isCurrent   |-> i = 0]

RECURSIVE forecastLoopOfNumber(_, _, _, _, _, _, _)
forecastLoopOfNumber(i, currentHour, baseWind, baseTemp, humidity, venue, profile) ==
    IF i < 24
    THEN <<forecastPointOfNumber(i, currentHour, baseWind, baseTemp, humidity, venue, profile)>>
            \o forecastLoopOfNumber(i + 1, currentHour, baseWind, baseTemp, humidity, venue, profile)
    ELSE <<>>

\* generateHourlyForecast of readings that can be missing
generateHourlyForecastOfReading(currentTemp, currentWind, humidity, venue, now) ==
    LET profile  == getWindProfile(venue)
        currentHour == getHours(now)
        wind     == toNumber(currentWind)
        temp     == toNumber(currentTemp)
        baseWind == IF wind = NaN THEN NaN
                    ELSE Some(fpDiv(fpDec(Val(wind), 100), windMultiplier(currentHour)))
        baseTemp == IF temp = NaN THEN NaN ELSE Some(Val(temp) - tempOffsets[currentHour])
    IN  forecastLoopOfNumber(0, currentHour, baseWind, baseTemp, humidity, venue, profile)

\* readings of which at least one is missing
MissingTemps == {Null, Undefined, Some(2400)}
MissingWinds == {Null, Undefined, Some(400)}
MissingHumidities == {Null, Some(50)}

CallGenerateHourlyForecastOfReading ==
    /\ fn = "none"
    /\ \E t \in MissingTemps, w \in MissingWinds, h \in MissingHumidities, v \in VenueRefs :
        /\ t \in {Null, Undefined} \/ w \in {Null, Undefined}
        /\ fn' = "generateHourlyForecast"
        /\ args' = [currentTemp |-> t, currentWind |-> w, humidity |-> h, venue |-> heap[v]]
        /\ ret' = generateHourlyForecastOfReading(t, w, h, heap[v], clock)
    /\ UNCHANGED <<clock, heap, calls>>

NextMissing ==
    \/ CallGenerateHourlyForecastOfReading
    \/ Return

SpecMissing == InitForecast /\ [][NextMissing]_vars

\* ── Calls on a series ─────────────────────────────────────────────────────

\* The longest series handed to getWindTrend and getOptimalBookingTime
MaxSeriesLen == 5

SeriesVenue ==
    [id |-> "dv-99", venueName |-> Null, vibe |-> Some("Bar"), tags |-> Some(<<"Rooftop">>)]

\* A point with the fields that getWindTrend and getOptimalBookingTime read:
\* feelsLike in whole degrees, windMs in tenths of a m/s, the tiers those give
seriesPoint(hour, feelsLike, windMs) ==
    [hour |-> hour, feelsLike |-> feelsLike, windMs |-> windMs,
     comfort |-> getComfortZone(Some(100 * feelsLike)),
     windWarning |-> getWindWarning(Some(10 * windMs), SeriesVenue)]

\* the points, at consecutive hours from start on
atHours(points, start) ==
    [i \in 1..Len(points) |-> [points[i] EXCEPT !.hour = (start + i - 1) % 24]]

\* Wind speeds of the trend series, in tenths of a m/s: where a ramp starts,
\* its step per hour, and the wind of a gust or lull
TrendStarts == {0, 20, 50, 120, 155}
TrendSteps == {-10, -3, -1, 0, 1, 3, 10}
TrendOutliers == {0, 155}

\* the ramp a, a + d, a + 2d, ... of n hours, hour j (if any) replaced by out
rampWinds(n, a, d, j, out) ==
    [i \in 1..n |-> IF i = j THEN out ELSE a + (i - 1) * d]

\* Null and every ramp of at most MaxSeriesLen hours from noon with at most
\* one gust or lull, no wind below zero
TrendSeries ==
    {Null} \cup
    {Some(atHours([i \in 1..Len(w) |-> seriesPoint(0, 20, w[i])], 12)) :
        w \in {r \in UNION {{rampWinds(n, a, d, j, out) :
                                a \in TrendStarts, d \in TrendSteps,
                                j \in 0..n, out \in TrendOutliers}
                            : n \in 0..MaxSeriesLen}
               : \A i \in 1..Len(r) : r[i] >= 0}}

\* <<feelsLike, windMs>>: warm and green, mild and yellow, cool and orange,
\* hot and red, cold and red
BookingSamples == {<<24, 20>>, <<18, 60>>, <<12, 100>>, <<30, 150>>, <<5, 150>>}

BookingPoints == {seriesPoint(0, p[1], p[2]) : p \in BookingSamples}

BookingStarts == {8, 14, 20}

\* Null and every series of at most MaxSeriesLen consecutive hours from a
\* start with points of BookingPoints
BookingSeries ==
    {Null} \cup UNION {{Some(atHours(p, start)) : p \in [1..n -> BookingPoints],
                                                  start \in BookingStarts}
                       : n \in 0..MaxSeriesLen}

CallGetWindTrend ==
    /\ fn = "none"
    /\ \E s \in TrendSeries :
        /\ fn' = "getWindTrend"
        /\ args' = [hourlyForecast |-> s]
        /\ ret' = getWindTrend(s)
    /\ UNCHANGED <<clock, heap, calls>>

CallGetOptimalBookingTime ==
    /\ fn = "none"
    /\ \E s \in BookingSeries :
        /\ fn' = "getOptimalBookingTime"
        /\ args' = [hourlyForecast |-> s]
        /\ ret' = getOptimalBookingTime(s)
    /\ UNCHANGED <<clock, heap, calls>>

NextSeries ==
    \/ CallGetWindTrend
    \/ CallGetOptimalBookingTime
    \/ Return

SpecSeries == Init /\ [][NextSeries]_vars

\* ── Timeline intelligence ─────────────────────────────────────────────────
\* An hour of the timeline is a record of dt (seconds, local time), temp
\* (Null or Some(hundredths of a degree)), wind_speed (Null or Some(hundredths
\* of a m/s)), uvi (Null or Some(index)) and weather (Null or
\* Some(weather[0].main)).

\* hourData.temp || 20: a missing temperature and the temperature 0 are 20
hourTemp(hourData) ==
    IF hourData.temp = Null \/ hourData.temp = Some(0) THEN 2000 ELSE Val(hourData.temp)

\* hourData.weather?.[0]?.main?.toLowerCase() || ''
hourWeatherMain(hourData) ==
    IF hourData.weather = Null THEN "" ELSE toLowerCase(Val(hourData.weather))

\* !venue?.tags?.includes('Shaded')
notShaded(venue) ==
    IF venue = Null \/ Val(venue).tags = Null THEN TRUE
    ELSE ~arrayIncludes(Val(Val(venue).tags), "Shaded")

\* Math.max(0, Math.min(100, score))
clampScore(score) == IF score > 100 THEN 100 ELSE IF score < 0 THEN 0 ELSE score

\* The score before the clamp, for the temperature temp and the wind tier
rawHourComfort(temp, windTier, hourData, venue) ==
    70
    + (IF temp >= 2100 /\ temp <= 2600 THEN 20
       ELSE IF temp < 1800 \/ temp > 3000 THEN -20 ELSE 0)
    + (IF windTier = "green" THEN 10 ELSE IF windTier = "red" THEN -30 ELSE 0)
    + (IF hourData.uvi # Null /\ Val(hourData.uvi) > 8 /\ notShaded(venue) THEN -15 ELSE 0)
    + (IF stringIncludes(hourWeatherMain(hourData), "rain") THEN -50 ELSE 0)
    + (IF stringIncludes(hourWeatherMain(hourData), "cloud") THEN -5 ELSE 0)

\* venue is Some(venue object); hourData.wind_speed || 0 is taken once more by
\* getWindWarning's windSpeedMs || 0
calculateHourComfort(hourData, venue) ==
    clampScore(rawHourComfort(hourTemp(hourData),
                              getWindWarning(hourData.wind_speed, Val(venue)).level,
                              hourData, venue))

\* calculateHourComfort of the hours of the timeline from the hour i on
RECURSIVE hourScoresFrom(_, _, _)
hourScoresFrom(data, venue, i) ==
    IF i > Len(data) THEN <<>>
    ELSE <<calculateHourComfort(data[i], venue)>> \o hourScoresFrom(data, venue, i + 1)

\* new Date(dt * 1000).getHours()
hourOfDt(dt) == getHours(dt \div 60)

\* 3 * windowScore: the sum of the scores of the hours i, i + 1, i + 2 (from 0)
timelineWindowSum(scores, i) == scores[i + 1] + scores[i + 2] + scores[i + 3]

\* The loop over the windows from index i on; bestSum is 3 * bestScore (-3
\* for the initial -1).  Its value is <<bestStartIndex, 3 * bestScore>>.
RECURSIVE bestWindowLoop(_, _, _, _)
bestWindowLoop(scores, i, bestStartIndex, bestSum) ==
    IF ~(i <= Len(scores) - 3) THEN <<bestStartIndex, bestSum>>
    ELSE IF timelineWindowSum(scores, i) > bestSum
         THEN bestWindowLoop(scores, i + 1, i, timelineWindowSum(scores, i))
         ELSE bestWindowLoop(scores, i + 1, bestStartIndex, bestSum)

\* ${h % 12 || 12}${h >= 12 ? 'pm' : 'am'}
twelveHour(h) ==
    ToString(IF h % 12 = 0 THEN 12 ELSE h % 12) \o (IF h >= 12 THEN "pm" ELSE "am")

\* hourlyData is Null or Some(sequence of hours); the value is Null or
\* Some(window).
findBestWindow(hourlyData, venue) ==
    IF hourlyData = Null \/ Len(Val(hourlyData)) < 3 THEN Null
    ELSE LET data   == Val(hourlyData)
             scores == hourScoresFrom(data, venue, 1)
             best   == bestWindowLoop(scores, 0, 0, -3)
             start  == hourOfDt(data[best[1] + 1].dt)
             end    == hourOfDt(data[best[1] + 3].dt) + 1
         IN  Some([start |-> ToString(start) \o ":00",
                   end   |-> ToString(IF end = 24 THEN 0 ELSE end) \o ":00",
                   label |-> twelveHour(start) \o " - " \o twelveHour(end),
                   score |-> MathRound(best[2], 3)])

\* ── Timeline calls ────────────────────────────────────────────────────────

\* The longest timeline handed to findBestWindow
MaxTimelineLen == 4

TimelineVenues ==
    {Null,
     Some([id |-> "dv-02", venueName |-> Some("Rooftop Bar"),
           vibe |-> Some("Rooftop Courtyard"), tags |-> Some(<<"Views", "Rooftop">>)]),
     Some([id |-> "dv-99", venueName |-> Some("The Local"),
           vibe |-> Some("Courtyard"), tags |-> Some(<<"Hidden", "Shaded">>)])}

\* temperatures at and next to the edges of the bands, and 0
TimelineTemps ==
    {Null, Some(-500), Some(0), Some(1), Some(1799), Some(1800), Some(2099), Some(2100),
     Some(2600), Some(2601), Some(3000), Some(3001)}
TimelineWinds == {Null, Some(300), Some(800), Some(1600)}
TimelineUvis == {Null, Some(8), Some(9)}
TimelineWeathers == {Null, Some("Clear"), Some("Rain"), Some("Clouds")}

\* The hours of a day of the timeline: three samples per hour
TimelineSamples ==
    {[temp |-> Some(2400), wind_speed |-> Some(300), uvi |-> Some(3), weather |-> Some("Clear")],
     [temp |-> Some(1900), wind_speed |-> Some(800), uvi |-> Some(9), weather |-> Some("Clouds")],
     [temp |-> Some(0), wind_speed |-> Some(300), uvi |-> Null, weather |-> Some("Rain")]}

timelineHour(sample, hour) ==
    [dt |-> 3600 * hour, temp |-> sample.temp, wind_speed |-> sample.wind_speed,
     uvi |-> sample.uvi, weather |-> sample.weather]

\* The timelines of consecutive hours from the hour start on
Timelines ==
    {Null} \cup
    UNION {{Some([i \in 1..n |-> timelineHour(f[i], start + i - 1)]) :
                f \in [1..n -> TimelineSamples], start \in 0..23} : n \in 0..MaxTimelineLen}

CallCalculateHourComfort ==
    /\ fn = "none"
    /\ \E t \in TimelineTemps, w \in TimelineWinds, u \in TimelineUvis,
          m \in TimelineWeathers, v \in TimelineVenues :
        /\ v # Null
        /\ fn' = "calculateHourComfort"
        /\ args' = [hourData |-> [dt |-> 0, temp |-> t, wind_speed |-> w, uvi |-> u,
                                   weather |-> m],
                    venue |-> v]
        /\ ret' = calculateHourComfort(args'.hourData, v)
    /\ UNCHANGED <<clock, heap, calls>>

CallFindBestWindow ==
    /\ fn = "none"
    /\ \E d \in Timelines, v \in TimelineVenues :
        /\ v # Null
        /\ fn' = "findBestWindow"
        /\ args' = [hourlyData |-> d, venue |-> v]
        /\ ret' = findBestWindow(d, v)
    /\ UNCHANGED <<clock, heap, calls>>

NextTimeline ==
    \/ CallCalculateHourComfort
    \/ CallFindBestWindow
    \/ Return

SpecTimeline == Init /\ [][NextTimeline]_vars

\* ── Booking store (bookingSlice) ──────────────────────────────────────────
\* heap holds the BookingProvider: the reducer state (store), the
\* previousSeverityRef and the weather prop.  calls is the set of the
\* checkAvailability calls that wait for their timer, each with the values of
\* the state it closed over and a number (id) that tells it from the others
\* in flight.  A weather is Null or Some of a record of main
\* (weather[0].main, Null without weather[0]) and wind (wind.speed).

SEVERITY_RANK == [sunny |-> 0, cloudy |-> 1, rainy |-> 2, stormy |-> 3]

getWeatherSeverity(weather) ==
    IF weather = Null \/ Val(weather).main = Null THEN "sunny"
    ELSE LET main      == toLowerCase(Val(Val(weather).main))
             windSpeed == IF Val(weather).wind = Null THEN 0 ELSE Val(Val(weather).wind)
         IN  IF stringIncludes(main, "thunderstorm") \/ stringIncludes(main, "tornado")
                \/ windSpeed > 2000
             THEN "stormy"
             ELSE IF stringIncludes(main, "rain") \/ stringIncludes(main, "drizzle")
                     \/ stringIncludes(main, "snow")
             THEN "rainy"
             ELSE IF stringIncludes(main, "cloud") \/ stringIncludes(main, "mist")
                     \/ stringIncludes(main, "fog") \/ stringIncludes(main, "haze")
             THEN "cloudy"
             ELSE "sunny"

\* hasCrossedThreshold with the threshold between sunny and cloudy
hasCrossedThresholdAtCloudy(prev, next) ==
    IF prev = next THEN FALSE
    ELSE LET prevRank == SEVERITY_RANK[prev]
             nextRank == SEVERITY_RANK[next]
         IN  (prevRank <= 0 /\ nextRank >= 1) \/ (prevRank >= 1 /\ nextRank <= 0)

hasCrossedThreshold(prev, next) ==
    IF prev = next THEN FALSE
    ELSE LET prevRank == SEVERITY_RANK[prev]
             nextRank == SEVERITY_RANK[next]
         IN  (prevRank <= 1 /\ nextRank >= 2) \/ (prevRank >= 2 /\ nextRank <= 1)

initialState ==
    [selectedVenue |-> Null, bookingDate |-> Null, availability |-> Null,
     weatherSeverity |-> "sunny", isChecking |-> FALSE, error |-> Null]

\* now is new Date(), read by CHECK_AVAILABILITY_SUCCESS
bookingReducer(state, action, now) ==
    CASE action.type = "SET_VENUE" ->
            [state EXCEPT !.selectedVenue = action.payload, !.availability = Null,
                          !.error = Null]
      [] action.type = "SET_DATE" ->
            [state EXCEPT !.bookingDate = action.payload, !.availability = Null]
      [] action.type = "SET_WEATHER_SEVERITY" ->
            [state EXCEPT !.weatherSeverity = action.payload]
      [] action.type = "CHECK_AVAILABILITY_START" ->
            [state EXCEPT !.isChecking = TRUE, !.error = Null]
      [] action.type = "CHECK_AVAILABILITY_SUCCESS" ->
            [state EXCEPT !.isChecking = FALSE,
                          !.availability = Some([available |-> action.payload.available,
                                                 checkedAt |-> now])]
      [] action.type = "CHECK_AVAILABILITY_FAILURE" ->
            [state EXCEPT !.isChecking = FALSE, !.availability = Null,
                          !.error = Some(action.payload)]
      [] action.type = "RESET" -> initialState
      [] OTHER -> state

\* The least number that no call in flight has
freeId(inflight) ==
    CHOOSE i \in 1..(Cardinality(inflight) + 1) :
        /\ \A c \in inflight : c.id # i
        /\ \A j \in 1..(i - 1) : \E c \in inflight : c.id = j

\* checkAvailability up to its await, called in a render whose state is
\* state: the provider and the calls in flight after it.  The call closes
\* over the selection and the severity of that state.
checkAvailability(state, provider, inflight, now) ==
    IF state.selectedVenue = Null \/ state.bookingDate = Null THEN <<provider, inflight>>
    ELSE <<[provider EXCEPT
                !.store = bookingReducer(@, [type |-> "CHECK_AVAILABILITY_START"], now)],
           inflight \cup {[id |-> freeId(inflight),
                           selectedVenue |-> state.selectedVenue,
                           bookingDate |-> state.bookingDate,
                           weatherSeverity |-> state.weatherSeverity]}>>

\* checkAvailability after its await: the payload of its dispatch
checkAvailabilityResult(check) ==
    LET isStormy == check.weatherSeverity = "stormy"
    IN  [available |-> ~isStormy]

\* The weather severity effect of a render of the provider.  It runs after
\* every change of the weather, the selection or checkAvailability; with the
\* weather unchanged newSeverity is previousSeverityRef.current and it does
\* nothing.
weatherSeverityEffect(provider, inflight, now) ==
    LET newSeverity  == getWeatherSeverity(provider.weather)
        prevSeverity == provider.previousSeverityRef
        state        == provider.store
        dispatched   ==
            [provider EXCEPT
                !.store = bookingReducer(@, [type |-> "SET_WEATHER_SEVERITY",
                                             payload |-> newSeverity], now)]
        rechecked    ==
            IF hasCrossedThreshold(prevSeverity, newSeverity)
               /\ state.selectedVenue # Null /\ state.bookingDate # Null
            THEN checkAvailability(state, dispatched, inflight, now)
            ELSE <<dispatched, inflight>>
    IN  IF newSeverity # prevSeverity
        THEN <<[rechecked[1] EXCEPT !.previousSeverityRef = newSeverity], rechecked[2]>>
        ELSE <<provider, inflight>>

\* ── Booking store calls ───────────────────────────────────────────────────

\* The most availability checks in flight at a time
MaxInFlight == 2

BookingVenues == {"dv-02", "dv-99"}
BookingDates == {"2026-02-20", "2026-02-21"}
BookingWeathers ==
    {Null,
     Some([main |-> Some("Clouds"), wind |-> Null]),
     Some([main |-> Some("Rain"), wind |-> Some(400)]),
     Some([main |-> Some("Clear"), wind |-> Some(2500)])}

\* The provider after its first render with the weather prop
mountedProvider(weather) ==
    weatherSeverityEffect([store |-> initialState, previousSeverityRef |-> "sunny",
                           weather |-> weather], {}, 0)

InitBooking ==
    /\ fn = "none"
    /\ args = NoArgs
    /\ ret = Null
    /\ clock = 0
    /\ \E w \in BookingWeathers :
        /\ heap = mountedProvider(w)[1]
        /\ calls = mountedProvider(w)[2]

\* The operations of the store are no engine calls: fn, args and ret stay as
\* they are.

selectVenue ==
    /\ \E venue \in BookingVenues :
        heap' = [heap EXCEPT !.store = bookingReducer(@, [type |-> "SET_VENUE",
                                                          payload |-> Some(venue)], clock)]
    /\ UNCHANGED <<fn, args, ret, clock, calls>>

setDate ==
    /\ \E date \in BookingDates :
        heap' = [heap EXCEPT !.store = bookingReducer(@, [type |-> "SET_DATE",
                                                          payload |-> Some(date)], clock)]
    /\ UNCHANGED <<fn, args, ret, clock, calls>>

reset ==
    /\ heap' = [heap EXCEPT !.store = bookingReducer(@, [type |-> "RESET"], clock)]
    /\ UNCHANGED <<fn, args, ret, clock, calls>>

\* A consumer of the context calls checkAvailability of the last render.
CallCheckAvailability ==
    /\ Cardinality(calls) < MaxInFlight
    /\ heap.store.selectedVenue # Null /\ heap.store.bookingDate # Null
    /\ heap' = checkAvailability(heap.store, heap, calls, clock)[1]
    /\ calls' = checkAvailability(heap.store, heap, calls, clock)[2]
    /\ UNCHANGED <<fn, args, ret, clock>>

\* The timer of a check in flight fires and the check dispatches its result.
CheckAvailabilityResumes ==
    /\ \E check \in calls :
        /\ heap' = [heap EXCEPT !.store =
                        bookingReducer(@, [type |-> "CHECK_AVAILABILITY_SUCCESS",
                                           payload |-> checkAvailabilityResult(check)], clock)]
        /\ calls' = calls \ {check}
    /\ UNCHANGED <<fn, args, ret, clock>>

\* The parent renders the provider with another weather and the effect runs.
WeatherChanges ==
    /\ \E weather \in BookingWeathers :
        /\ weather # heap.weather
        /\ LET rendered == [heap EXCEPT !.weather = weather]
               after    == weatherSeverityEffect(rendered, calls, clock)
           IN  /\ Cardinality(after[2]) <= MaxInFlight
               /\ heap' = after[1]
               /\ calls' = after[2]
    /\ UNCHANGED <<fn, args, ret, clock>>

NextBooking ==
    \/ selectVenue
    \/ setDate
    \/ reset
    \/ CallCheckAvailability
    \/ CheckAvailabilityResumes
    \/ WeatherChanges

SpecBooking == InitBooking /\ [][NextBooking]_vars

\* ── Booking summary (BookingSummary) ──────────────────────────────────────
\* heap holds the component: its props (venue, date, onSuccess), the
\* isSubmittingRef, the state isSubmitting, phase, errorMessage and
\* bookingResult, the confirm button as last rendered (dom), the number of
\* clicks handled (clicks) and the number of payments processed (payments).
\* calls is the set of the booking flows that wait for a timer, each in the
\* stage "verifying" or "paying".  The prop onSuccess is Null or Some of what
\* the callback does: "returns" or "throws".

\* handleConfirmBooking without the mutex check
handleConfirmBookingUnguarded(component, inflight) ==
    <<[component EXCEPT !.isSubmittingRef = TRUE, !.isSubmitting = TRUE,
                        !.errorMessage = "", !.phase = "verifying",
                        !.clicks = @ + 1],
      inflight \cup {[id |-> component.clicks + 1, stage |-> "verifying",
                      venueId |-> component.props.venue,
                      date |-> component.props.date]}>>

\* handleConfirmBooking up to its first await: the component and the flows in
\* flight after it
handleConfirmBooking(component, inflight) ==
    IF component.isSubmittingRef
    THEN <<[component EXCEPT !.clicks = @ + 1], inflight>>
    ELSE <<[component EXCEPT !.isSubmittingRef = TRUE, !.isSubmitting = TRUE,
                             !.errorMessage = "", !.phase = "verifying",
                             !.clicks = @ + 1],
           inflight \cup {[id |-> component.clicks + 1, stage |-> "verifying",
                           venueId |-> component.props.venue,
                           date |-> component.props.date]}>>

\* verifyAvailability after its timer: the mock's answer
verifyAvailability(venueId, dateISO) == [available |-> TRUE]

\* processPayment after its timer: the mock's answer; the booking id is made
\* of the time and a random string, here the number of the payment
processPayment(bookingPayload, paymentNo) ==
    [success |-> TRUE, bookingId |-> paymentNo]

\* catch and finally of handleConfirmBooking
flowFails(component, message) ==
    [component EXCEPT !.phase = "error", !.errorMessage = message,
                      !.isSubmittingRef = FALSE, !.isSubmitting = FALSE]

\* disabled={isSubmitting || phase === 'success'}
renderButton(component) ==
    [disabled |-> component.isSubmitting \/ component.phase = "success"]

\* ── Booking summary calls ─────────────────────────────────────────────────

\* The most clicks on the confirm button in a run
MaxClicks == 3

SummaryCallbacks == {Null, Some("returns"), Some("throws")}

mountedSummary(venue, date, onSuccess) ==
    LET component ==
            [props |-> [venue |-> venue, date |-> date, onSuccess |-> onSuccess],
             isSubmittingRef |-> FALSE, isSubmitting |-> FALSE, phase |-> "ready",
             errorMessage |-> "", bookingResult |-> Null,
             dom |-> [disabled |-> FALSE], clicks |-> 0, payments |-> 0]
    IN  [component EXCEPT !.dom = renderButton(component)]

InitSummary ==
    /\ fn = "none"
    /\ args = NoArgs
    /\ ret = Null
    /\ clock = 0
    /\ \E venue \in BookingVenues, date \in BookingDates, onSuccess \in SummaryCallbacks :
        heap = mountedSummary(venue, date, onSuccess)
    /\ calls = {}

\* A click on the confirm button as it was last rendered
ClickConfirm ==
    /\ ~heap.dom.disabled
    /\ heap.clicks < MaxClicks
    /\ heap' = handleConfirmBooking(heap, calls)[1]
    /\ calls' = handleConfirmBooking(heap, calls)[2]
    /\ UNCHANGED <<fn, args, ret, clock>>

\* The timer of verifyAvailability fires: the flow goes on to the payment, or
\* fails when the venue is not available.
VerifyAvailabilityResolves ==
    /\ \E flow \in calls :
        /\ flow.stage = "verifying"
        /\ IF verifyAvailability(flow.venueId, flow.date).available
           THEN /\ heap' = [heap EXCEPT !.phase = "paying"]
                /\ calls' = (calls \ {flow}) \cup {[flow EXCEPT !.stage = "paying"]}
           ELSE /\ heap' = flowFails(heap, "This venue is no longer available for the selected date.")
                /\ calls' = calls \ {flow}
    /\ UNCHANGED <<fn, args, ret, clock>>

\* The timer of processPayment fires: success, the callback, and the unlock
\* of finally; a callback that throws takes the flow to catch.
ProcessPaymentResolves ==
    /\ \E flow \in calls :
        /\ flow.stage = "paying"
        /\ LET result == processPayment(flow, heap.payments + 1)
               paid   == [heap EXCEPT !.payments = @ + 1]
               done   == [paid EXCEPT !.phase = "success",
                                      !.bookingResult = Some(result.bookingId)]
           IN  heap' =
                 IF ~result.success
                 THEN flowFails(paid, "Payment processing failed. Please try again.")
                 ELSE IF done.props.onSuccess = Some("throws")
                 THEN flowFails(done, "onSuccess failed")
                 ELSE [done EXCEPT !.isSubmittingRef = FALSE, !.isSubmitting = FALSE]
        /\ calls' = calls \ {flow}
    /\ UNCHANGED <<fn, args, ret, clock>>

\* React renders the component with its last state.
RenderSummary ==
    /\ heap.dom # renderButton(heap)
    /\ heap' = [heap EXCEPT !.dom = renderButton(heap)]
    /\ UNCHANGED <<fn, args, ret, clock, calls>>

NextSummary ==
    \/ ClickConfirm
    \/ VerifyAvailabilityResolves
    \/ ProcessPaymentResolves
    \/ RenderSummary

SpecSummary == InitSummary /\ [][NextSummary]_vars

\* ── Weather cache (useWeather) ────────────────────────────────────────────
\* heap holds window.localStorage (a string or Null per key) and the API key
\* of the app ("" without one); the clock counts minutes; calls holds, per caller, its
\* fetchWeatherWithCache call: where it is (pc), its coordinates, the raw
\* string that readCache found, whether the API request failed, and the value
\* returned.  Coordinates are integers of 10^-4 degrees.

\* 15 * 60 * 1000
CACHE_TTL_MS == 15 * 60 * 1000

CACHE_PREFIX == "weather_"

\* Date.now(), in milliseconds, at the minute now
DateNow(now) == now * 60 * 1000

twoDigits(n) == IF n < 10 THEN "0" \o ToString(n) ELSE ToString(n)

\* Number(coord).toFixed(2)
roundCoord(coord) ==
    LET magnitude  == IF coord < 0 THEN -coord ELSE coord
        hundredths == (magnitude + 50) \div 100
    IN  (IF coord < 0 THEN "-" ELSE "") \o ToString(hundredths \div 100) \o "."
            \o twoDigits(hundredths % 100)

buildCacheKey(lat, lon) == CACHE_PREFIX \o roundCoord(lat) \o "_" \o roundCoord(lon)

\* JSON.stringify and JSON.parse of a weather object: the text is kept as the
\* object it spells
JSONstringify(object) == <<"json", object>>
JSONparse(text) == text[2]

\* { ...data, _cacheTimestamp: Date.now() }
withCacheTimestamp(data, now) ==
    [name |-> data.name, main |-> data.main, uvi |-> data.uvi,
     _cacheTimestamp |-> Some(DateNow(now))]

\* The demo weather (its hourly series is left out)
DEMO_WEATHER == [name |-> "Melbourne", main |-> "Clear", uvi |-> 8, _cacheTimestamp |-> Null]

\* PlatformStorage.removeItem, which removes the item before it returns its
\* promise
removeItem(localStorage, key) == [localStorage EXCEPT ![key] = Null]

\* readCache: the value (Null or Some(cached)) and the storage after it
readCache(localStorage, key, now) ==
    LET raw == localStorage[key]
    IN  IF raw = Null THEN <<Null, localStorage>>
        ELSE LET cached == JSONparse(Val(raw))
                 age    == DateNow(now) - (IF cached._cacheTimestamp = Null THEN 0
                                           ELSE Val(cached._cacheTimestamp))
             IN  IF age > CACHE_TTL_MS THEN <<Null, removeItem(localStorage, key)>>
                 ELSE <<Some(cached), localStorage>>

\* writeCache: the storage after it
writeCache(localStorage, key, data, now) ==
    [localStorage EXCEPT ![key] = Some(JSONstringify(withCacheTimestamp(data, now)))]

\* ── Weather cache calls ───────────────────────────────────────────────────

\* The most steps of eight minutes that the clock makes
MaxCacheTicks == 2

\* Melbourne, a venue next to it and a venue in another bucket
WeatherCoords ==
    {[lat |-> -378136, lon |-> 1449631], [lat |-> -378142, lon |-> 1449632],
     [lat |-> -378183, lon |-> 1449671]}

CacheKeys == {buildCacheKey(c.lat, c.lon) : c \in WeatherCoords}

\* What the API answers: the weather, with the UV index of the second request
\* or, when that request fails, without
ApiResponses ==
    {[name |-> "Melbourne", main |-> "Rain", uvi |-> Some(5)],
     [name |-> "Melbourne", main |-> "Clear", uvi |-> Null]}

IdleFetch ==
    [pc |-> "idle", lat |-> 0, lon |-> 0, raw |-> Null, failed |-> FALSE, ret |-> Null]

InitWeather ==
    /\ fn = "none"
    /\ args = NoArgs
    /\ ret = Null
    /\ clock = 0
    /\ \E apiKey \in {"", "key"} :
        heap = [localStorage |-> [key \in CacheKeys |-> Null], apiKey |-> apiKey]
    /\ calls = [c \in Callers |-> IdleFetch]

\* fetchWeatherWithCache up to the API request
CallFetchWeatherWithCache ==
    /\ \E c \in Callers, coords \in WeatherCoords :
        /\ calls[c].pc # "fetching"
        /\ LET cacheKey == buildCacheKey(coords.lat, coords.lon)
               raw      == heap.localStorage[cacheKey]
               read     == readCache(heap.localStorage, cacheKey, clock)
               call     == [IdleFetch EXCEPT !.lat = coords.lat, !.lon = coords.lon,
                                             !.raw = raw]
           IN  IF read[1] # Null
               THEN /\ calls' = [calls EXCEPT ![c] = [call EXCEPT !.pc = "done",
                                                                  !.ret = read[1]]]
                    /\ heap' = [heap EXCEPT !.localStorage = read[2]]
               ELSE IF heap.apiKey = ""
               THEN /\ calls' = [calls EXCEPT ![c] = [call EXCEPT !.pc = "done",
                                                                  !.ret = Some(DEMO_WEATHER)]]
                    /\ heap' = [heap EXCEPT !.localStorage =
                                    writeCache(read[2], cacheKey, DEMO_WEATHER, clock)]
               ELSE /\ calls' = [calls EXCEPT ![c] = [call EXCEPT !.pc = "fetching"]]
                    /\ heap' = [heap EXCEPT !.localStorage = read[2]]
    /\ UNCHANGED <<fn, args, ret, clock>>

\* The API answers: the data, with the UV index of the second request or the
\* one guessed from the sky, is cached and returned.
ApiSucceeds ==
    /\ \E c \in Callers, response \in ApiResponses :
        /\ calls[c].pc = "fetching"
        /\ LET cacheKey    == buildCacheKey(calls[c].lat, calls[c].lon)
               weatherData ==
                   [name |-> response.name, main |-> response.main,
                    uvi |-> IF response.uvi # Null THEN Val(response.uvi)
                            ELSE IF response.main = "Clear" THEN 8 ELSE 2,
                    _cacheTimestamp |-> Null]
           IN  /\ heap' = [heap EXCEPT !.localStorage =
                               writeCache(@, cacheKey, weatherData, clock)]
               /\ calls' = [calls EXCEPT ![c].pc = "done", ![c].ret = Some(weatherData)]
    /\ UNCHANGED <<fn, args, ret, clock>>

\* The API request fails: the item of the key, whatever its age, or else the
\* demo weather is returned.
ApiFails ==
    /\ \E c \in Callers :
        /\ calls[c].pc = "fetching"
        /\ LET cacheKey == buildCacheKey(calls[c].lat, calls[c].lon)
               raw      == heap.localStorage[cacheKey]
           IN  calls' = [calls EXCEPT ![c].pc = "done", ![c].failed = TRUE,
                                      ![c].ret = IF raw # Null THEN Some(JSONparse(Val(raw)))
                                                 ELSE Some(DEMO_WEATHER)]
    /\ UNCHANGED <<fn, args, ret, clock, heap>>

\* Eight minutes pass.
TickCache ==
    /\ clock < 8 * MaxCacheTicks
    /\ clock' = clock + 8
    /\ UNCHANGED <<fn, args, ret, heap, calls>>

NextWeather ==
    \/ CallFetchWeatherWithCache
    \/ ApiSucceeds
    \/ ApiFails
    \/ TickCache

SpecWeather == InitWeather /\ [][NextWeather]_vars

\* ── Properties ────────────────────────────────────────────────────────────

\* The argument of the getComfortZone call of the current state
ComfortArg == Val(args.apparentTemp)

ComfortCalled == fn = "getComfortZone" /\ args.apparentTemp # Null

\* C1: for every non-null apparent temperature a, getComfortZone returns cold
\* iff a < 10, cool iff 10 <= a < 16, mild iff 16 <= a < 22, warm iff
\* 22 <= a < 28, hot iff 28 <= a < 34 and extreme iff a >= 34; each edge value
\* is in the upper tier and the value a hundredth below it in the lower tier.
C1_ComfortBoundaries ==
    ComfortCalled =>
        /\ (ret.level = "cold")    <=> (ComfortArg < 1000)
        /\ (ret.level = "cool")    <=> (1000 <= ComfortArg /\ ComfortArg < 1600)
        /\ (ret.level = "mild")    <=> (1600 <= ComfortArg /\ ComfortArg < 2200)
        /\ (ret.level = "warm")    <=> (2200 <= ComfortArg /\ ComfortArg < 2800)
        /\ (ret.level = "hot")     <=> (2800 <= ComfortArg /\ ComfortArg < 3400)
        /\ (ret.level = "extreme") <=> (3400 <= ComfortArg)
        /\ (ComfortArg = 999  => ret.level = "cold")
        /\ (ComfortArg = 1000 => ret.level = "cool")
        /\ (ComfortArg = 2199 => ret.level = "mild")

C1_Witness == ComfortCalled /\ ComfortArg = 1000 /\ ret.level = "cool"

\* C2 as stated: 21.99 is cool and 22.0 is mild.
C2_Original ==
    ComfortCalled =>
        /\ (ComfortArg = 2199 => ret.level = "cool")
        /\ (ComfortArg = 2200 => ret.level = "mild")

\* C2 (amended): at the tier edge 22, getComfortZone(21.99) is mild and
\* getComfortZone(22.0) is warm.
C2_Edge22 ==
    ComfortCalled =>
        /\ (ComfortArg = 2199 => ret.level = "mild")
        /\ (ComfortArg = 2200 => ret.level = "warm")

C2_Witness == ComfortCalled /\ ComfortArg = 2200 /\ ret.level = "warm"

WindCalled == fn = "getWindWarning" /\ args.windSpeedMs # Null

\* windSpeedMs * exposure of the profile of the venue of the current call,
\* in units of 10^-4 m/s
WindCallEffective ==
    Val(args.windSpeedMs) * WIND_EXPOSURE_PROFILES[detectWindExposure(args.venue)].exposure

\* C3: getWindWarning classifies effectiveWind = w * exposure as green (calm)
\* iff it is below 5, yellow (breezy) iff in [5, 9), orange (windy) iff in
\* [9, 14) and red (severe) iff at least 14; exactly 5.0, 9.0 and 14.0 are in
\* the upper tier.
C3_WindBoundaries ==
    WindCalled =>
        /\ (ret.level = "green")  <=> (WindCallEffective < 50000)
        /\ (ret.level = "yellow") <=> (50000 <= WindCallEffective /\ WindCallEffective < 90000)
        /\ (ret.level = "orange") <=> (90000 <= WindCallEffective /\ WindCallEffective < 140000)
        /\ (ret.level = "red")    <=> (140000 <= WindCallEffective)
        /\ (WindCallEffective = 50000  => ret.level = "yellow")
        /\ (WindCallEffective = 90000  => ret.level = "orange")
        /\ (WindCallEffective = 140000 => ret.level = "red")

C3_Witness == WindCalled /\ WindCallEffective = 140000 /\ ret.level = "red"

\* The rules in the order the claim gives them, with the category of each
RuleCategories ==
    <<"rooftop", "floating", "waterfront", "open_park", "beer_garden", "courtyard",
      "streetside", "cafe", "hotel", "courtyard", "beer_garden">>

RuleMatches(venue) ==
    LET vibe == venueVibe(venue)
        tags == venueTags(venue)
    IN  <<matchesRooftop(vibe, tags), matchesFloating(vibe, tags),
          matchesWaterfront(vibe, tags), matchesOpenPark(vibe, tags),
          matchesBeerGarden(vibe, tags), matchesCourtyard(vibe, tags),
          matchesStreetside(vibe, tags), matchesCafe(vibe, tags),
          matchesHotel(vibe, tags), matchesLounge(vibe, tags),
          matchesPub(vibe, tags)>>

FirstMatchCategory(matches) ==
    IF \A i \in 1..Len(matches) : ~matches[i] THEN "beer_garden"
    ELSE RuleCategories[CHOOSE i \in 1..Len(matches) :
                            matches[i] /\ \A j \in 1..(i - 1) : ~matches[j]]

\* C4: detectWindExposure returns the category of the first matching rule in
\* the order rooftop, floating, waterfront, open_park, beer_garden, courtyard,
\* streetside, cafe, hotel, lounge/cocktail/cozy, pub/tavern/warehouse, and
\* beer_garden when none matches; a venue matching rooftop and beer garden
\* resolves to rooftop; the result is always one of the ten categories.
C4_ExposurePriority ==
    fn = "detectWindExposure" =>
        LET m == RuleMatches(args.venue)
        IN  /\ ret = FirstMatchCategory(m)
            /\ (m[1] /\ m[5] => ret = "rooftop")
            /\ ret \in ProfileTypes
            /\ (args.venue.vibe = Null /\ args.venue.tags = Null => ret = "beer_garden")

C4_Witness ==
    /\ fn = "detectWindExposure"
    /\ RuleMatches(args.venue)[1] /\ RuleMatches(args.venue)[5]
    /\ ret = "rooftop"

\* The text the claim tests the keywords against: the lower-cased
\* concatenation of the vibe, the tags and the name
RECURSIVE joinStrings(_)
joinStrings(strs) ==
    IF Len(strs) = 0 THEN "" ELSE strs[1] \o " " \o joinStrings(Tail(strs))

venueText(venue) ==
    venueVibe(venue) \o " " \o joinStrings(venueTags(venue)) \o venueNameLower(venue)

RuleKeywords ==
    <<{"rooftop"}, {"floating"}, {"river", "waterfront", "wharf"},
      {"stadium", "pop-up", "marquee", "food truck", "park"},
      {"beer garden", "garden"}, {"courtyard", "maze", "hidden"},
      {"streetside", "street"}, {"cafe", "bookshop", "co-work"},
      {"hotel", "boutique hotel"}, {"lounge", "cocktail", "cozy"},
      {"pub", "tavern", "warehouse"}>>

\* C5: every keyword rule is tested against the lower-cased concatenation of
\* vibe, tags and name, so the result is the category of the first rule one of
\* whose keywords occurs anywhere in that text.
C5_KeywordsAgainstAllText ==
    fn = "detectWindExposure" =>
        ret = FirstMatchCategory(
                [i \in 1..Len(RuleKeywords) |->
                    \E kw \in RuleKeywords[i] :
                        stringIncludes(venueText(args.venue), kw)])

ApparentCalled == fn = "calculateApparentTemp"

\* C7: calculateApparentTemp returns null exactly when the temperature or the
\* wind speed is missing; a missing humidity gives the result of humidity 50;
\* getComfortZone maps null to the unknown tier.
C7_NullHandling ==
    /\ ApparentCalled =>
        /\ (ret = Null) <=> (args.tempC = Null \/ args.windSpeedMs = Null)
        /\ (args.humidity = Null =>
              ret = calculateApparentTemp(args.tempC, args.windSpeedMs, Some(50),
                                          args.shelterFactor))
    /\ (fn = "getComfortZone" /\ args.apparentTemp = Null) => ret.level = "unknown"

C7_Witness ==
    /\ ApparentCalled
    /\ args.humidity = Null /\ args.tempC # Null /\ args.windSpeedMs # Null
    /\ ret # Null

\* C8: for present T and W the result is T + 0.33*e - 0.70*w_eff - 4.00 rounded
\* to one decimal, e = (H/100) * 6.105 * exp(17.27*T / (237.7+T)) and
\* w_eff = W * (1 - shelterFactor); there is no clamp.
C8_Formula ==
    (ApparentCalled /\ ret # Null) =>
        LET T    == Val(args.tempC)
            W    == Val(args.windSpeedMs)
            H    == IF args.humidity = Null THEN 50 ELSE Val(args.humidity)
            sf   == IF args.shelterFactor = Null THEN 0 ELSE Val(args.shelterFactor)
            e    == MulDiv(MulDiv(MathExp(1727 * T, 100 * (23770 + T)), 6105, 1000), H, 100)
            weff == W * (100 - sf)
            at   == T * 10000 + MulDiv(e, 33, 100) - 70 * weff - 4000000
            d    == Val(ret) * 10000 - at
        IN  /\ Val(ret) % 10 = 0
            /\ -50000 < d /\ d <= 50000

\* a result above 50 degrees
C8_Witness ==
    /\ ApparentCalled /\ ret # Null
    /\ Val(args.tempC) = 4000 /\ args.humidity = Some(90)
    /\ Val(ret) > 5000

RooftopVenue ==
    [id |-> "dv-99", venueName |-> Null, vibe |-> Null, tags |-> Some(<<"Rooftop">>)]

\* calculateApparentTemp(24, 10, 50, shelterFactor of the Rooftop venue)
RooftopSampleApparent ==
    /\ ApparentCalled
    /\ args.tempC = Some(2400) /\ args.windSpeedMs = Some(1000)
    /\ args.humidity = Some(50)
    /\ args.shelterFactor = Some(getWindProfile(RooftopVenue).shelterFactor)

\* getWindWarning(10, the Rooftop venue)
RooftopSampleWind ==
    /\ fn = "getWindWarning"
    /\ args.windSpeedMs = Some(1000) /\ args.venue = RooftopVenue

RooftopSampleWindTier ==
    RooftopSampleWind =>
        /\ getWindProfile(RooftopVenue).exposure = 95
        /\ getWindProfile(RooftopVenue).shelterFactor = 5
        /\ WindCallEffective = 95000
        /\ ret.level = "orange"

\* C9 as stated: the comfort tier of the sample is warm and its wind tier windy.
C9_Original ==
    /\ RooftopSampleApparent => getComfortZone(ret).level = "warm"
    /\ RooftopSampleWindTier

\* C9 (amended): for the venue tagged ["Rooftop"] (exposure 0.95, shelterFactor
\* 0.05) and the sample temperature 24, wind 10 m/s, humidity 50, the comfort
\* tier of the computed apparent temperature is mild and the wind tier, from
\* the effective wind 9.5 m/s, is windy (orange).
C9_RooftopSample ==
    /\ RooftopSampleApparent => getComfortZone(ret).level = "mild"
    /\ RooftopSampleWindTier

C9_Witness == RooftopSampleApparent /\ getComfortZone(ret).level = "mild"

\* calculateApparentTemp(24, 10, 50, 0.05)
SampleApparent ==
    /\ ApparentCalled
    /\ args.tempC = Some(2400) /\ args.windSpeedMs = Some(1000)
    /\ args.humidity = Some(50) /\ args.shelterFactor = Some(5)

\* the unrounded apparent temperature of the sample, in units of 10^-6 degrees
SampleRaw == apparentTempRaw(2400, vapourPressure(50, 2400), shelteredWind(1000, 5))

\* C10 as stated: e is about 14.47 hPa and the result about 24.43 (24.4).
C10_Original ==
    SampleApparent =>
        /\ 14465000 <= vapourPressure(50, 2400) /\ vapourPressure(50, 2400) < 14475000
        /\ 24425000 <= SampleRaw /\ SampleRaw < 24435000
        /\ ret = Some(2440)

\* C10 (amended): for temperature 24, wind 10 m/s, humidity 50 and
\* shelterFactor 0.05 the vapour pressure e is about 14.88 hPa and the apparent
\* temperature about 18.26 degrees (18.3 after rounding to one decimal).
C10_SampleValue ==
    SampleApparent =>
        /\ 14875000 <= vapourPressure(50, 2400) /\ vapourPressure(50, 2400) < 14885000
        /\ 18255000 <= SampleRaw /\ SampleRaw < 18265000
        /\ ret = Some(1830)

C10_Witness == SampleApparent /\ ret = Some(1830)

\* ── Properties of the wind trend ──────────────────────────────────────────

TrendCalled == fn = "getWindTrend"

\* The series of the getWindTrend call of the current state
TrendArg == Val(args.hourlyForecast)

\* a change of windMs from now to later (tenths of a m/s) is above the
\* thresholds: more than 30% of now (more than 0.3 m/s when now is 0) or more
\* than 3 m/s
AboveThreshold(now, later) ==
    \/ (IF now > 0 THEN 10 * (later - now) > 3 * now ELSE later - now > 3)
    \/ later - now > 30

\* the fall from now to later is above the thresholds
BelowThreshold(now, later) ==
    \/ (IF now > 0 THEN 10 * (later - now) < -3 * now ELSE later - now < -3)
    \/ later - now < -30

\* the change from now to later is within the thresholds, none of them met
WithinThreshold(now, later) ==
    /\ (IF now > 0 THEN 10 * (later - now) < 3 * now /\ 10 * (later - now) > -3 * now
        ELSE later - now < 3 /\ later - now > -3)
    /\ later - now < 30
    /\ later - now > -30

TrendOfChange(now, later) ==
    IF AboveThreshold(now, later) THEN "building"
    ELSE IF BelowThreshold(now, later) THEN "calming"
    ELSE "steady"

\* C15: for every series of at least 5 points getWindTrend takes delta =
\* series[4].windMs - series[0].windMs and ratio = delta / series[0].windMs
\* (ratio = delta when series[0].windMs is 0) and returns building if ratio >
\* 0.3 or delta > 3, otherwise calming if ratio < -0.3 or delta < -3,
\* otherwise steady.
C15_TrendFromFifthPoint ==
    (TrendCalled /\ args.hourlyForecast # Null /\ Len(TrendArg) >= 5) =>
        ret.direction = TrendOfChange(TrendArg[1].windMs, TrendArg[5].windMs)

StrictlyIncreasing(series) ==
    Len(series) >= 2 /\ \A i \in 1..(Len(series) - 1) : series[i].windMs < series[i + 1].windMs

StrictlyDecreasing(series) ==
    Len(series) >= 2 /\ \A i \in 1..(Len(series) - 1) : series[i].windMs > series[i + 1].windMs

Flat(series) ==
    \A i \in 1..Len(series) : series[i].windMs = series[1].windMs

ComparedWind(series) ==
    IF Len(series) >= 5 /\ series[5].windMs # 0 THEN series[5].windMs ELSE series[3].windMs

C17_ShortSeriesSteady ==
    (TrendCalled /\ (args.hourlyForecast = Null \/ Len(TrendArg) < 4)) =>
        ret = WindTrends.steady

\* three points rising by 1 m/s an hour from 2 m/s
C17_Witness ==
    /\ TrendCalled /\ args.hourlyForecast # Null
    /\ Len(TrendArg) = 3
    /\ TrendArg[1].windMs = 20 /\ TrendArg[3].windMs = 40
    /\ ret.direction = "steady"

\* ── Properties of the optimal booking time ────────────────────────────────

BookingCalled == fn = "getOptimalBookingTime"

\* The series of the getOptimalBookingTime call of the current state
BookingArg == Val(args.hourlyForecast)

\* The score of an hour as the claim tabulates it
ClaimedComfortTerm == [warm |-> 5, mild |-> 4, cool |-> 2, hot |-> 1]
ClaimedWindTerm == [green |-> 3, yellow |-> 1, orange |-> -1, red |-> -3]

ClaimedScore(h) ==
    (IF h.comfort.level \in DOMAIN ClaimedComfortTerm
     THEN ClaimedComfortTerm[h.comfort.level] ELSE 0)
    + ClaimedWindTerm[h.windWarning.level]
    + (IF h.hour \in 9..21 THEN 1 ELSE 0)
    + (IF h.hour \in 10..16 THEN 1 ELSE 0)

\* the sum of the three-hour window at index i, from 0
ClaimedWindowSum(series, i) ==
    ClaimedScore(series[i + 1]) + ClaimedScore(series[i + 2]) + ClaimedScore(series[i + 3])

\* C18: for every series of at least 3 points the window returned by
\* getOptimalBookingTime starts at the smallest index i in 0..n-3 whose sum
\* score[i] + score[i+1] + score[i+2] is maximal: no window has a higher sum
\* and no earlier window has the same sum.  (The hours of a series are
\* distinct, so startHour identifies the index.)
C18_EarliestBestWindow ==
    (BookingCalled /\ args.hourlyForecast # Null /\ Len(BookingArg) >= 3) =>
        /\ ret # Null /\ ret # TypeError
        /\ \E i \in 0..(Len(BookingArg) - 3) :
            /\ Val(ret).startHour = BookingArg[i + 1].hour
            /\ Val(ret).endHour = (BookingArg[i + 3].hour + 1) % 24
            /\ \A j \in 0..(Len(BookingArg) - 3) :
                /\ ClaimedWindowSum(BookingArg, j) <= ClaimedWindowSum(BookingArg, i)
                /\ j < i => ClaimedWindowSum(BookingArg, j) < ClaimedWindowSum(BookingArg, i)

\* two windows share the maximal sum and the earlier one is returned
C18_Witness ==
    /\ BookingCalled /\ args.hourlyForecast # Null /\ Len(BookingArg) >= 4
    /\ ret # Null /\ ret # TypeError
    /\ \E i, j \in 0..(Len(BookingArg) - 3) :
        /\ i < j
        /\ ClaimedWindowSum(BookingArg, i) = ClaimedWindowSum(BookingArg, j)
        /\ \A k \in 0..(Len(BookingArg) - 3) :
            ClaimedWindowSum(BookingArg, k) <= ClaimedWindowSum(BookingArg, i)
        /\ Val(ret).startHour = BookingArg[i + 1].hour

\* C19: the score of an hour is a comfort term (warm 5, mild 4, cool 2, hot 1,
\* any other tier 0) plus a wind term (green 3, yellow 1, orange -1, red -3)
\* plus 1 if the hour is in [9,21] plus 1 if it is in [10,16]; every score
\* lies between -3 and 10.
C19_HourScore ==
    (BookingCalled /\ args.hourlyForecast # Null) =>
        \A i \in 1..Len(BookingArg) :
            /\ hourScore(BookingArg[i]) = ClaimedScore(BookingArg[i])
            /\ scoredSeries(BookingArg)[i] = ClaimedScore(BookingArg[i])
            /\ hourScore(BookingArg[i]) \in -3..10

\* a series with an hour of score 10, an hour of score -3 and a windy hour
C19_Witness ==
    /\ BookingCalled /\ args.hourlyForecast # Null
    /\ \E i, j, k \in 1..Len(BookingArg) :
        /\ hourScore(BookingArg[i]) = 10
        /\ hourScore(BookingArg[j]) = -3
        /\ BookingArg[k].windWarning.level = "orange"

\* C20: getOptimalBookingTime is total: for every series, the empty one and
\* those of 1 or 2 points included, it returns null or a window whose three
\* hours are points of the series, and never throws.
C20_Total ==
    BookingCalled =>
        \/ ret = Null
        \/ /\ ret # TypeError
           /\ \E i \in 0..(Len(BookingArg) - 3) :
                /\ Val(ret).startHour = BookingArg[i + 1].hour
                /\ Val(ret).endHour = (BookingArg[i + 3].hour + 1) % 24

\* ── Properties of the hourly forecast ─────────────────────────────────────

ForecastCalled == fn = "generateHourlyForecast"

\* C11: generateHourlyForecast returns exactly 24 points; point i (from 0) has
\* hour (currentHour + i) mod 24, so every hour of the day appears exactly
\* once; isCurrent is true and the label is "Now" at index 0 and nowhere else.
C11_TwentyFourHours ==
    ForecastCalled =>
        /\ Len(ret) = 24
        /\ \A i \in 0..23 :
            /\ ret[i + 1].hour = ((clock \div 60) + i) % 24
            /\ ret[i + 1].isCurrent = (i = 0)
            /\ (ret[i + 1].label = "Now") = (i = 0)
        /\ \A h \in 0..23 : Cardinality({i \in 1..Len(ret) : ret[i].hour = h}) = 1

\* a call at 22:20, whose third point is midnight
C11_Witness ==
    /\ ForecastCalled
    /\ clock \div 60 = 22
    /\ ret[1].hour = 22 /\ ret[1].label = "Now"
    /\ ret[3].hour = 0 /\ ret[3].label = "12am"
    /\ ret[24].hour = 21 /\ ret[24].label = "9pm"

\* C12: the series is anchored at the current hour: baseWind = W /
\* windMultiplier[current], baseTemp = T - tempOffset[current], hour h gets
\* baseWind * multiplier[h] and baseTemp + offset[h], so that for every
\* current hour point 0 has temperature round(T) and windSpeedKmh
\* round(W * 3.6).
C12_AnchoredAtCurrent ==
    ForecastCalled =>
        /\ ret[1].temp = MathRound(args.currentTemp, 100)
        /\ ret[1].wind = fpRound(fpMul(fpDec(args.currentWind, 100), fpDec(36, 10)))

\* ── Properties of two callers ─────────────────────────────────────────────

ForecastBy(c) == calls[c].fn = "generateHourlyForecast"

ProfileBy(c) == calls[c].fn = "getWindProfile"

\* C13 as stated: two calls of generateHourlyForecast with the same
\* (tempC, windMs, humidityPct, venue), at any two times, return the same
\* series.
C13_Original ==
    \A c1, c2 \in Callers :
        (ForecastBy(c1) /\ ForecastBy(c2) /\ calls[c1].args = calls[c2].args)
            => calls[c1].ret = calls[c2].ret

\* C13 (amended): two calls of generateHourlyForecast with the same arguments
\* made within the same hour of the clock return the same series; made in
\* different hours they return series that start at different hours.
C13_SameHourSameSeries ==
    \A c1, c2 \in Callers :
        (ForecastBy(c1) /\ ForecastBy(c2) /\ calls[c1].args = calls[c2].args) =>
            IF calls[c1].at \div 60 = calls[c2].at \div 60
            THEN calls[c1].ret = calls[c2].ret
            ELSE calls[c1].ret[1].hour # calls[c2].ret[1].hour

\* the same call made at 13:00 and at 13:30
C13_Witness ==
    /\ ForecastBy("c1") /\ ForecastBy("c2")
    /\ calls["c1"].args = calls["c2"].args
    /\ calls["c1"].at = 13 * 60 /\ calls["c2"].at = 13 * 60 + 30
    /\ calls["c1"].ret = calls["c2"].ret

WindowStart == CHOOSE i \in 1..(Len(BookingArg) - 2) : BookingArg[i].hour = Val(ret).startHour

WindowSum ==
    BookingArg[WindowStart].feelsLike + BookingArg[WindowStart + 1].feelsLike
        + BookingArg[WindowStart + 2].feelsLike

\* The parts of C21 on the hours and the wind tier
WindowHoursAndTier ==
    /\ \E i \in 1..(Len(BookingArg) - 2) : BookingArg[i].hour = Val(ret).startHour
    /\ WindowStart = bestStartLoop(scoredSeries(BookingArg), 0, 0, Null) + 1
    /\ Val(ret).endHour = (Val(ret).startHour + 3) % 24
    /\ Val(ret).endHour = (BookingArg[WindowStart + 2].hour + 1) % 24
    /\ Val(ret).avgWindLevel = BookingArg[WindowStart].windWarning.level

\* C21 as stated: for a series produced by generateHourlyForecast the window
\* has startHour = the hour of its first point, endHour = (startHour + 3) mod
\* 24, avgFeelsLike = the mean of the apparent temperatures of its three
\* points, and the wind tier of its first hour.
C21_Original ==
    (BookingCalled /\ Len(BookingArg) = 24) =>
        /\ WindowHoursAndTier
        /\ 3 * Val(ret).avgFeelsLike = WindowSum

\* C21 (amended): as stated, except that avgFeelsLike is the mean of the three
\* points' apparent temperatures rounded to the nearest whole degree.
C21_WindowOfForecast ==
    (BookingCalled /\ Len(BookingArg) = 24) =>
        /\ WindowHoursAndTier
        /\ 3 * Val(ret).avgFeelsLike - WindowSum \in {-1, 0, 1}

\* a window of a generated series whose mean is a third below a whole degree
C21_Witness ==
    /\ BookingCalled /\ Len(BookingArg) = 24
    /\ BookingArg[1].isCurrent
    /\ 3 * Val(ret).avgFeelsLike - WindowSum = 1
    /\ Val(ret).endHour = (Val(ret).startHour + 3) % 24

\* ── Properties of the tiers of a forecast point ───────────────────────────

\* classifyComfort of the point's feelsLike (whole degrees)
ComfortOfFeelsLike(point) == getComfortZone(Some(100 * point.feelsLike)).level

\* classifyWind of the point's windMs (tenths of a m/s) for the venue
WindOfWindMs(point, venue) == getWindWarning(Some(10 * point.windMs), venue).level

\* C24 as stated: in every point of a generated forecast the comfort tier is
\* classifyComfort of the point's feelsLike and the wind tier is classifyWind
\* of the point's windMs for the venue.
C24_Original ==
    ForecastCalled =>
        \A i \in 1..Len(ret) :
            /\ ret[i].comfort.level = ComfortOfFeelsLike(ret[i])
            /\ ret[i].windWarning.level = WindOfWindMs(ret[i], args.venue)

WindTierRank(level) ==
    CASE level = "green" -> 0 [] level = "yellow" -> 1
      [] level = "orange" -> 2 [] level = "red" -> 3

\* C24 (amended): the tiers of a point are those of the hour's unrounded
\* values, of which feelsLike and windMs are the roundings: the comfort tier
\* is classifyComfort(feelsLike), or the tier below it when the unrounded
\* value is up to half a degree under feelsLike; the wind tier lies between
\* classifyWind(windMs - 0.05) and classifyWind(windMs + 0.05).
C24_TiersOfUnroundedValues ==
    ForecastCalled =>
        \A i \in 1..Len(ret) :
            /\ ret[i].comfort.level \in
                    {ComfortOfFeelsLike(ret[i]),
                     getComfortZone(Some(100 * ret[i].feelsLike - 50)).level}
            /\ WindTierRank(getWindWarning(Some(10 * ret[i].windMs - 5), args.venue).level)
                    <= WindTierRank(ret[i].windWarning.level)
            /\ WindTierRank(ret[i].windWarning.level)
                    <= WindTierRank(getWindWarning(Some(10 * ret[i].windMs + 5), args.venue).level)

\* a series with a point whose feelsLike is 28 in tier warm and a point whose
\* wind tier differs from that of its windMs
C24_Witness ==
    /\ ForecastCalled
    /\ \E i \in 1..Len(ret) :
        /\ ret[i].comfort.level # ComfortOfFeelsLike(ret[i])
        /\ ret[i].feelsLike \in {22, 28}
    /\ \E i \in 1..Len(ret) :
        ret[i].windWarning.level # WindOfWindMs(ret[i], args.venue)

\* ── Properties of a forecast of missing readings ──────────────────────────

ReadingMissing(v) == v \in {Null, Undefined}

\* C28: when generateHourlyForecast is called with a missing temperature or a
\* missing wind speed, the comfort tier of every one of the 24 points is
\* unknown.
C28_MissingGivesUnknown ==
    (ForecastCalled /\ (ReadingMissing(args.currentTemp) \/ ReadingMissing(args.currentWind))) =>
        /\ Len(ret) = 24
        /\ \A i \in 1..Len(ret) : ret[i].comfort.level = "unknown"

\* ── Properties of the timeline ────────────────────────────────────────────

HourComfortCalled == fn = "calculateHourComfort"

\* The temperature term as C29 states it
ClaimedTemperatureTerm(temp) ==
    IF temp >= 2100 /\ temp <= 2600 THEN 20
    ELSE IF temp < 1800 \/ temp > 3000 THEN -20 ELSE 0

\* The score of the hour without its temperature term
OtherTerms ==
    LET level == getWindWarning(args.hourData.wind_speed, Val(args.venue)).level
        main  == IF args.hourData.weather = Null THEN "" ELSE Val(args.hourData.weather)
    IN  70
        + (IF level = "green" THEN 10 ELSE IF level = "red" THEN -30 ELSE 0)
        + (IF args.hourData.uvi = Some(9) /\ Val(args.venue).id # "dv-99" THEN -15 ELSE 0)
        + (IF main = "Rain" THEN -50 ELSE 0) + (IF main = "Clouds" THEN -5 ELSE 0)

\* C29: calculateHourComfort adds 20 for every hour whose temperature is in
\* [21, 26] and subtracts 20 for every hour whose temperature is below 18 or
\* above 30, including an hour whose temperature is exactly 0; the returned
\* score is always within 0..100.
C29_TemperatureBands ==
    (HourComfortCalled /\ args.hourData.temp # Null) =>
        /\ ret \in 0..100
        /\ ret = clampScore(OtherTerms + ClaimedTemperatureTerm(Val(args.hourData.temp)))

BestWindowCalled == fn = "findBestWindow"

\* The hour of the day that a label such as 12am, 9am, 12pm or 11pm denotes
LabelOfHour(h) ==
    IF h = 0 THEN "12am" ELSE IF h < 12 THEN ToString(h) \o "am"
    ELSE IF h = 12 THEN "12pm" ELSE ToString(h - 12) \o "pm"

\* C30: the label and the start/end fields returned by findBestWindow describe
\* the same window: for every window, including one whose last hour is 23,
\* the hour and the am/pm marker at the end of the label denote the same time
\* of day as the end field.
C30_LabelMatchesFields ==
    (BestWindowCalled /\ ret # Null) =>
        \E s, e \in 0..23 :
            /\ Val(ret).start = ToString(s) \o ":00"
            /\ Val(ret).end = ToString(e) \o ":00"
            /\ Val(ret).label = LabelOfHour(s) \o " - " \o LabelOfHour(e)

\* ── Properties of the booking store ───────────────────────────────────────

\* The side of the concern threshold: rainy and stormy are of concern
OfConcern(severity) == severity \in {"rainy", "stormy"}

SelectionMade == heap.store.selectedVenue # Null /\ heap.store.bookingDate # Null

\* A step that starts one availability check
CheckStarts ==
    /\ calls \subseteq calls'
    /\ Cardinality(calls') = Cardinality(calls) + 1
    /\ heap'.store.isChecking

\* C23: whenever the weather severity crosses the concern threshold, from
\* {sunny, cloudy} to {rainy, stormy} or the reverse, while a venue and a
\* booking date are selected, the booking store starts an availability
\* re-check; a severity change that stays on one side of the threshold starts
\* none.
C23_RecheckOnCrossing ==
    [][heap'.weather # heap.weather =>
        LET prev == getWeatherSeverity(heap.weather)
            next == getWeatherSeverity(heap'.weather)
        IN  /\ (OfConcern(prev) # OfConcern(next) /\ SelectionMade) => CheckStarts
            /\ (OfConcern(prev) = OfConcern(next)) => calls' = calls]_vars

\* the re-check of a selection is in flight after the weather has turned from
\* fine to stormy
C23_Witness ==
    /\ getWeatherSeverity(heap.weather) = "stormy"
    /\ heap.store.weatherSeverity = "stormy"
    /\ SelectionMade /\ heap.store.isChecking
    /\ \E check \in calls :
        /\ calls = {check}
        /\ ~OfConcern(check.weatherSeverity)
        /\ Some(check.selectedVenue) = Some(heap.store.selectedVenue)

\* A step in which a check in flight completes and records its result
CheckCompletes == calls' \subseteq calls /\ calls' # calls

CompletedCheck == CHOOSE check \in calls : check \notin calls'

\* C25: stormy weather blocks outdoor bookings: whenever an availability
\* check completes while the store's weatherSeverity is stormy, the recorded
\* availability has available = false; in particular the re-check that a
\* transition into stormy has triggered does not leave the store with
\* weatherSeverity = stormy and availability.available = true.
C25_StormyBlocksBooking ==
    [][(CheckCompletes /\ heap'.store.weatherSeverity = "stormy") =>
        /\ heap'.store.availability # Null
        /\ ~Val(heap'.store.availability).available]_vars

\* C27: a non-null availability always belongs to the currently selected
\* venue and date.  Every change of the selection and every reset sets the
\* availability to null, so that the availability belongs to the selection
\* exactly if every check that records a result was made for the selection
\* of that moment.
C27_AvailabilityOfSelection ==
    [][(CheckCompletes /\ heap'.store.availability # Null) =>
        /\ heap'.store.selectedVenue = CompletedCheck.selectedVenue
        /\ heap'.store.bookingDate = CompletedCheck.bookingDate]_vars

\* ── Properties of the booking summary ─────────────────────────────────────

\* A step in which handleConfirmBooking runs
ConfirmTapped == heap'.clicks = heap.clicks + 1

\* C22: at most one booking flow is in progress at any time: a confirm tap
\* that arrives while a submission is in progress starts neither an
\* availability verification nor a payment, and the lock is released when the
\* flow ends, on success and on error, so that a later tap runs the flow
\* again.
C22_OneFlowAtATime ==
    /\ [](Cardinality(calls) <= 1)
    /\ [](heap.isSubmittingRef <=> calls # {})
    /\ [][(ConfirmTapped /\ calls # {}) =>
            (calls' = calls /\ heap'.payments = heap.payments
             /\ heap'.phase = heap.phase)]_vars
    /\ [][(ConfirmTapped /\ calls = {}) =>
            (\E flow \in calls' : calls' = {flow} /\ flow.stage = "verifying")]_vars

\* a flow has ended in an error after its payment, a later tap has started the
\* flow again and a tap during that flow has been blocked
C22_Witness ==
    /\ heap.props.onSuccess = Some("throws")
    /\ heap.clicks = 3
    /\ heap.payments = 1
    /\ heap.errorMessage = ""
    /\ heap.isSubmittingRef
    /\ \E flow \in calls : calls = {flow} /\ flow.id = 2

\* ── Properties of the weather cache ───────────────────────────────────────

\* C26: when the API request fails and a cache entry older than the 15-minute
\* TTL had been stored for the coordinates, fetchWeatherWithCache returns
\* that stale cached entry (ignoring the TTL) rather than the demo weather.
\* A call goes to the API only if readCache found no entry or an expired one,
\* so a call that found an entry and whose request failed found a stale one.
C26_StaleCacheFallback ==
    \A c \in Callers :
        (calls[c].pc = "done" /\ calls[c].failed /\ calls[c].raw # Null) =>
            calls[c].ret = Some(JSONparse(Val(calls[c].raw)))

====
